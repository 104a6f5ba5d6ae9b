SPECIFICATION Spec
CONSTANT Arrivals <- MCArrivals
PROPERTY SentExactlyOnce
