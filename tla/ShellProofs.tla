---------------------------- MODULE ShellProofs -----------------------------
(***************************************************************************)
(* Proofs about Shell, for any length of the line, any keys and any heap:  *)
(* a command finds the line that was typed, and a listing stays exact      *)
(* while the table changes under it.                                       *)
(***************************************************************************)
EXTENDS Shell, SequenceTheorems, NaturalsInduction, WellFoundedInduction, TLAPS

-----------------------------------------------------------------------------
(* The inductive invariants.                                               *)

(* The editor: while a line is read, cmd is where it ends; a command       *)
(* starts with what was read, and the next line at the beginning.          *)
Holds == \A i \in 1..Len(line) : cmd_buf[i - 1] = line[i]

EditorInv ==
  /\ IF pt = "read" THEN cmd = Len(line) /\ Holds ELSE cmd = 0
  /\ CommandAsTyped

(* The entries are linked in some order s, none of them twice, and a       *)
(* listing that shows one of them has yet to show those behind it.         *)
Listed(n, s) ==
  /\ \A i, j \in 1..n : s[i] = s[j] => i = j
  /\ entries = {s[i] : i \in 1..n}
  /\ route_table = IF n = 0 THEN NULL ELSE s[1]
  /\ \A i \in 1..n : next[s[i]] = IF i = n THEN NULL ELSE s[i + 1]

Shown(n, s) == pt = "list" /\ ~ stale =>
  \E k \in 1..n : r = s[k] /\ unseen = {s[j] : j \in (k + 1)..n}

ListInv == \E n \in Nat : \E s \in [1..n -> Block] : Listed(n, s) /\ Shown(n, s)

-----------------------------------------------------------------------------
(* Types.                                                                  *)

LEMMA Sizes == MAX_CMD_BUF \in Nat /\ MAX_CMD_BUF >= 3 /\ NULL \notin Block
BY ShellAssumption

LEMMA TypeInit == Init => TypeOK
<1> SUFFICES ASSUME Init PROVE TypeOK
  OBVIOUS
<1>1. 0 \in 0..(MAX_CMD_BUF - 2) /\ 0 <= MAX_CMD_BUF - 2
  BY Sizes
<1>2. <<>> \in Seq(Key) /\ Len(<<>>) = 0
  BY EmptySeq
<1> QED
  BY <1>1, <1>2 DEF Init, TypeOK

(* What the editor's actions do to the line.                               *)
LEMMA LineTypes ==
  ASSUME line \in Seq(Key), Len(line) <= MAX_CMD_BUF - 2
  PROVE  /\ Len(line) \in Nat /\ \A i \in 1..Len(line) : line[i] \in Key
         /\ \A k \in Key : /\ Append(line, k) \in Seq(Key)
                           /\ Len(Append(line, k)) = Len(line) + 1
                           /\ Append(line, k)[Len(line) + 1] = k
                           /\ \A i \in 1..Len(line) : Append(line, k)[i] = line[i]
         /\ line # <<>> =>
              /\ Len(line) > 0
              /\ SubSeq(line, 1, Len(line) - 1) \in Seq(Key)
              /\ Len(SubSeq(line, 1, Len(line) - 1)) = Len(line) - 1
              /\ \A i \in 1..(Len(line) - 1) : SubSeq(line, 1, Len(line) - 1)[i] = line[i]
<1>1. Len(line) \in Nat /\ \A i \in 1..Len(line) : line[i] \in Key
  BY LenProperties, ElementOfSeq
<1>2. ASSUME NEW k \in Key
      PROVE  /\ Append(line, k) \in Seq(Key)
             /\ Len(Append(line, k)) = Len(line) + 1
             /\ Append(line, k)[Len(line) + 1] = k
             /\ \A i \in 1..Len(line) : Append(line, k)[i] = line[i]
  OBVIOUS
<1>3. ASSUME line # <<>>
      PROVE  /\ Len(line) > 0
             /\ SubSeq(line, 1, Len(line) - 1) \in Seq(Key)
             /\ Len(SubSeq(line, 1, Len(line) - 1)) = Len(line) - 1
             /\ \A i \in 1..(Len(line) - 1) : SubSeq(line, 1, Len(line) - 1)[i] = line[i]
  <2>1. Len(line) > 0
    BY <1>1, <1>3, EmptySeq
  <2>2. PICK m : m = Len(line) - 1
    OBVIOUS
  <2>3. m \in Nat /\ \A i \in 1..m : line[i] \in Key
    BY <1>1, <2>1, <2>2
  <2>4. /\ SubSeq(line, 1, m) \in Seq(Key)
        /\ Len(SubSeq(line, 1, m)) = IF 1 <= m THEN m - 1 + 1 ELSE 0
        /\ \A i \in 1..(m - 1 + 1) : SubSeq(line, 1, m)[i] = line[1 + i - 1]
    BY <2>3, SubSeqProperties
  <2>5. \A i \in 1..m : i \in 1..(m - 1 + 1) /\ 1 + i - 1 = i
    BY <2>3
  <2>6. Len(SubSeq(line, 1, m)) = m
    BY <2>3, <2>4
  <2> QED
    BY <2>1, <2>2, <2>4, <2>5, <2>6
<1> QED
  BY <1>1, <1>2, <1>3

Characters == Key \cup {"enter", "delete", "nul"}

LEMMA TypeNext == TypeOK /\ [Next]_vars => TypeOK'
<1> SUFFICES ASSUME TypeOK, [Next]_vars PROVE TypeOK'
  OBVIOUS
<1> DEFINE EditorOK == /\ cmd_buf \in [0..(MAX_CMD_BUF - 1) -> Characters]
                       /\ cmd \in 0..(MAX_CMD_BUF - 2)
                       /\ line \in Seq(Key) /\ Len(line) <= MAX_CMD_BUF - 2
           RoutesOK == /\ route_table \in Block \cup {NULL}
                       /\ next \in [Block -> Block \cup {NULL}]
                       /\ entries \subseteq Block
           ListingOK == /\ r \in Block \cup {NULL} /\ (pt = "list" => r # NULL)
                        /\ unseen \subseteq entries /\ stale \in BOOLEAN
           Places == {"prompt", "read", "command", "uart_wait", "list"}
<1>1. pt \in Places /\ EditorOK /\ RoutesOK /\ ListingOK
  BY DEF TypeOK, Characters
<1>2. /\ MAX_CMD_BUF \in Nat /\ MAX_CMD_BUF >= 3
      /\ 0 \in 0..(MAX_CMD_BUF - 2) /\ 0 <= MAX_CMD_BUF - 2
      /\ cmd \in 0..(MAX_CMD_BUF - 1) /\ cmd + 1 \in 0..(MAX_CMD_BUF - 1)
      /\ \A x, y \in Characters : /\ [cmd_buf EXCEPT ![cmd] = x] \in [0..(MAX_CMD_BUF - 1) -> Characters]
                                  /\ [cmd_buf EXCEPT ![cmd] = x, ![cmd + 1] = y]
                                       \in [0..(MAX_CMD_BUF - 1) -> Characters]
  BY <1>1, Sizes
<1>3. CASE Prompted
  <2>1. EditorOK'
    BY <1>1, <1>2, <1>3, EmptySeq DEF Prompted
  <2> QED
    BY <1>1, <1>3, <2>1 DEF Prompted, routes, listing, TypeOK, Characters
<1>4. ASSUME NEW k \in Key, Type(k) PROVE TypeOK'
  <2>1. k \in Characters
    BY DEF Characters
  <2>2. cmd' \in 0..(MAX_CMD_BUF - 2)
    BY <1>1, <1>2, <1>4 DEF Type
  <2>3. line' \in Seq(Key) /\ Len(line') <= MAX_CMD_BUF - 2
    BY <1>1, <1>2, <1>4, LineTypes DEF Type
  <2> QED
    BY <1>1, <1>2, <1>4, <2>1, <2>2, <2>3 DEF Type, routes, listing, TypeOK, Characters
<1>5. CASE Delete
  <2>1. "delete" \in Characters
    BY DEF Characters
  <2>2. cmd' \in 0..(MAX_CMD_BUF - 2)
    BY <1>1, <1>2, <1>5 DEF Delete
  <2>3. line' \in Seq(Key) /\ Len(line') <= MAX_CMD_BUF - 2
    BY <1>1, <1>2, <1>5, LineTypes DEF Delete
  <2> QED
    BY <1>1, <1>2, <1>5, <2>1, <2>2, <2>3 DEF Delete, routes, listing, TypeOK, Characters
<1>6. CASE Enter
  <2>1. "enter" \in Characters /\ "nul" \in Characters
    BY DEF Characters
  <2> QED
    BY <1>1, <1>2, <1>6, <2>1
       DEF Enter, shell_data_parse, routes, listing, TypeOK, Characters
<1>7. CASE Command
  BY <1>1, <1>7 DEF Command, editor, routes, listing, TypeOK, Characters
<1>8. CASE ListBegin
  BY <1>1, <1>8 DEF ListBegin, Lists, editor, routes, TypeOK, Characters
<1>9. CASE ListNext
  BY <1>1, <1>9 DEF ListNext, Lists, editor, routes, TypeOK, Characters
<1>10. ASSUME NEW b \in Block, Save(b) PROVE TypeOK'
  <2>1. RoutesOK'
    BY <1>1, <1>10 DEF Save, SavedLast
  <2>2. ListingOK'
    BY <1>1, <1>10 DEF Save
  <2> QED
    BY <1>1, <1>10, <2>1, <2>2 DEF Save, editor, TypeOK, Characters
<1>11. ASSUME NEW b \in Block, Purge(b) PROVE TypeOK'
  <2>1. RoutesOK'
    BY <1>1, <1>11 DEF Purge, route_delete
  <2>2. ListingOK'
    BY <1>1, <1>11 DEF Purge
  <2> QED
    BY <1>1, <1>11, <2>1, <2>2 DEF Purge, editor, TypeOK, Characters
<1>12. CASE UNCHANGED vars
  BY <1>12 DEF vars, editor, routes, listing, TypeOK
<1> QED
  BY <1>3, <1>4, <1>5, <1>6, <1>7, <1>8, <1>9, <1>10, <1>11, <1>12 DEF Next

(* Every variable keeps its type: cmd stays in the buffer with room for    *)
(* the end of the line behind it (shell.c:121, 166-188).                   *)
THEOREM TypeCorrect == Spec => []TypeOK
BY TypeInit, TypeNext, PTL DEF Spec

-----------------------------------------------------------------------------
(* The line editor.                                                        *)

LEMMA EditorInit == Init => EditorInv
BY DEF Init, EditorInv, CommandAsTyped

LEMMA EditorNext == TypeOK /\ EditorInv /\ [Next]_vars => EditorInv'
<1> SUFFICES ASSUME TypeOK, EditorInv, [Next]_vars PROVE EditorInv'
  OBVIOUS
<1> DEFINE n == Len(line)
           Indices == 0..(MAX_CMD_BUF - 1)
<1>1. /\ MAX_CMD_BUF \in Nat /\ MAX_CMD_BUF >= 3
      /\ n \in Nat /\ n <= MAX_CMD_BUF - 2 /\ DOMAIN cmd_buf = Indices
      /\ cmd \in 0..(MAX_CMD_BUF - 2)
      /\ line \in Seq(Key)
  BY Sizes, LenProperties DEF TypeOK
<1>2. CASE Prompted
  <2>1. pt = "prompt" /\ pt' = "read" /\ line' = <<>> /\ UNCHANGED <<cmd_buf, cmd>>
    BY <1>2 DEF Prompted
  <2>2. cmd' = 0 /\ Len(line') = 0
    BY <2>1, EmptySeq DEF EditorInv
  <2> QED
    BY <2>1, <2>2 DEF EditorInv, Holds, CommandAsTyped
<1>3. ASSUME NEW k \in Key, Type(k) PROVE EditorInv'
  <2>1. /\ pt = "read" /\ pt' = "read" /\ cmd = n /\ Holds
        /\ cmd_buf' = [cmd_buf EXCEPT ![n] = k]
        /\ cmd' = (IF n # MAX_CMD_BUF - 2 THEN n + 1 ELSE n)
        /\ line' = (IF n < MAX_CMD_BUF - 2 THEN Append(line, k) ELSE line)
    BY <1>3 DEF Type, EditorInv
  <2>2. \A i \in 1..n : cmd_buf'[i - 1] = line[i]
    <3>1. \A i \in 1..n : i - 1 \in Indices /\ i - 1 # n
      BY <1>1
    <3> QED
      BY <1>1, <2>1, <3>1 DEF Holds
  <2>3. CASE n < MAX_CMD_BUF - 2
    <3>1. /\ cmd' = n + 1 /\ line' = Append(line, k) /\ Len(line') = n + 1
          /\ line'[n + 1] = k /\ \A i \in 1..n : line'[i] = line[i]
      BY <1>1, <2>1, <2>3, LineTypes
    <3>2. cmd_buf'[(n + 1) - 1] = k
      BY <1>1, <2>1
    <3>3. \A i \in 1..(n + 1) : i \in 1..n \/ i = n + 1
      BY <1>1
    <3> QED
      BY <2>1, <2>2, <3>1, <3>2, <3>3 DEF EditorInv, Holds, CommandAsTyped
  <2>4. CASE ~ (n < MAX_CMD_BUF - 2)
    <3>1. cmd' = n /\ line' = line
      BY <1>1, <2>1, <2>4
    <3> QED
      BY <2>1, <2>2, <3>1 DEF EditorInv, Holds, CommandAsTyped
  <2> QED
    BY <2>3, <2>4
<1>4. CASE Delete
  <2>1. /\ pt = "read" /\ pt' = "read" /\ cmd = n /\ Holds
        /\ cmd_buf' = [cmd_buf EXCEPT ![n] = "delete"]
        /\ cmd' = (IF n # 0 THEN n - 1 ELSE n)
        /\ line' = (IF line # <<>> THEN SubSeq(line, 1, n - 1) ELSE line)
    BY <1>4 DEF Delete, EditorInv
  <2>2. \A i \in 1..n : cmd_buf'[i - 1] = line[i]
    <3>1. \A i \in 1..n : i - 1 \in Indices /\ i - 1 # n
      BY <1>1
    <3> QED
      BY <1>1, <2>1, <3>1 DEF Holds
  <2>3. CASE line # <<>>
    <3>1. /\ n > 0 /\ cmd' = n - 1 /\ Len(line') = n - 1
          /\ \A i \in 1..(n - 1) : line'[i] = line[i]
      BY <1>1, <2>1, <2>3, LineTypes
    <3>2. \A i \in 1..(n - 1) : i \in 1..n
      BY <1>1
    <3> QED
      BY <2>1, <2>2, <3>1, <3>2 DEF EditorInv, Holds, CommandAsTyped
  <2>4. CASE line = <<>>
    <3>1. cmd' = n /\ line' = line
      BY <2>1, <2>4, EmptySeq
    <3> QED
      BY <2>1, <2>2, <3>1 DEF EditorInv, Holds, CommandAsTyped
  <2> QED
    BY <2>3, <2>4
<1>5. CASE Enter
  <2>1. /\ pt = "read" /\ cmd = n /\ Holds /\ cmd' = 0 /\ line' = line
        /\ cmd_buf' = [cmd_buf EXCEPT ![n] = "enter", ![n + 1] = "nul"]
        /\ pt' # "read"
    BY <1>5 DEF Enter, EditorInv, shell_data_parse
  <2>2. \A i \in 1..n : i - 1 \in Indices /\ i - 1 # n /\ i - 1 # n + 1
    BY <1>1
  <2>3. \A i \in 1..n : cmd_buf'[i - 1] = line[i]
    BY <1>1, <2>1, <2>2 DEF Holds
  <2>4. n \in Indices /\ n + 1 \in Indices /\ n # n + 1
    BY <1>1
  <2>5. cmd_buf'[n] = "enter" /\ cmd_buf'[n + 1] = "nul"
    BY <1>1, <2>1, <2>4
  <2> QED
    BY <2>1, <2>3, <2>5 DEF EditorInv, CommandAsTyped
<1>6. ASSUME UNCHANGED editor,
             \/ pt' = pt
             \/ pt' \in {"prompt", "list"} /\ pt \in {"command", "uart_wait", "list"}
      PROVE  EditorInv'
  BY <1>6 DEF editor, EditorInv, Holds, CommandAsTyped
<1>7. CASE Command \/ ListBegin \/ ListNext
  BY <1>6, <1>7 DEF Command, ListBegin, ListNext, Lists
<1>8. ASSUME NEW b \in Block, Save(b) \/ Purge(b) PROVE EditorInv'
  BY <1>6, <1>8 DEF Save, Purge
<1>9. CASE UNCHANGED vars
  BY <1>6, <1>9 DEF vars
<1> QED
  BY <1>2, <1>3, <1>4, <1>5, <1>7, <1>8, <1>9 DEF Next

LEMMA EditorInvariant == Spec => []EditorInv
<1>1. TypeOK /\ EditorInv /\ [Next]_vars => EditorInv'
  BY EditorNext
<1> QED
  BY <1>1, EditorInit, TypeCorrect, PTL DEF Spec

(* A command finds the line that was typed, with an end behind it, however *)
(* much was typed over and deleted (shell.c:95, 121, 135-188).             *)
THEOREM CommandsRead == Spec => []CommandAsTyped
<1>1. EditorInv => CommandAsTyped
  BY DEF EditorInv
<1> QED
  BY <1>1, EditorInvariant, PTL

-----------------------------------------------------------------------------
(* The linked list.                                                        *)

(* The least-number principle.                                             *)
LEMMA Smallest ==
  ASSUME NEW S \in SUBSET Nat, S # {}
  PROVE  \E m \in S : \A k \in S : m <= k
<1> DEFINE Less == {ss \in Nat \X Nat : ss[1] < ss[2]}
<1>1. IsWellFoundedOn(Less, Nat)
  <2>1. OpToRel(<, Nat) = Less
    BY DEF OpToRel
  <2> QED
    BY <2>1, NatLessThanWellFounded
<1> HIDE DEF Less
<1>2. PICK m \in S : \A k \in S : ~ (<<k, m>> \in Less)
  BY <1>1, WFMin
<1>3. ASSUME NEW k \in S, k < m PROVE FALSE
  <2>1. <<k, m>> \in Less
    BY <1>3 DEF Less
  <2> QED
    BY <2>1, <1>2
<1> QED
  BY <1>3

(* From an entry on come that entry and those behind it, ...               *)
LEMMA FromEntry ==
  ASSUME NEW n \in Nat, NEW s \in [1..n -> Block], Listed(n, s), NEW k \in 1..n
  PROVE  From(s[k]) = {s[j] : j \in k..n}
<1> DEFINE Rest == {s[j] : j \in k..n}
           Closed(S) == \A d \in S : next[d] \in S \cup {NULL}
<1>1. Rest \in SUBSET Block /\ s[k] \in Rest
  OBVIOUS
<1>2. Closed(Rest)
  <2> SUFFICES ASSUME NEW j \in k..n PROVE next[s[j]] \in Rest \cup {NULL}
    OBVIOUS
  <2>1. j \in 1..n
    OBVIOUS
  <2>2. next[s[j]] = IF j = n THEN NULL ELSE s[j + 1]
    BY <2>1 DEF Listed
  <2>3. j # n => j + 1 \in k..n
    OBVIOUS
  <2> QED
    BY <2>2, <2>3
<1>3. ASSUME NEW c \in From(s[k]) PROVE c \in Rest
  <2> HIDE DEF Rest
  <2> QED
    BY <1>1, <1>2, <1>3 DEF From
<1>4. ASSUME NEW S \in SUBSET Block, s[k] \in S, Closed(S),
             NEW i \in k..n, s[i] \notin S
      PROVE  FALSE
  <2> DEFINE Left == {j \in k..n : s[j] \notin S}
  <2>1. Left \in SUBSET Nat /\ Left # {}
    BY <1>4
  <2>2. PICK m \in Left : \A j \in Left : m <= j
    <3> HIDE DEF Left
    <3> QED
      BY <2>1, Smallest
  <2>3. m # k /\ m \in k..n /\ s[m] \notin S
    BY <1>4, <2>2
  <2>4. m - 1 \in k..n /\ m - 1 \in 1..n /\ m - 1 # n /\ (m - 1) + 1 = m /\ ~ (m <= m - 1)
    BY <2>3
  <2>5. s[m - 1] \in S
    BY <2>2, <2>4
  <2>6. next[s[m - 1]] = s[m]
    BY <2>4 DEF Listed
  <2>7. s[m] # NULL
    BY <2>3, Sizes
  <2> QED
    BY <1>4, <2>3, <2>5, <2>6, <2>7
<1>5. ASSUME NEW c \in Rest PROVE c \in From(s[k])
  <2>1. PICK i \in k..n : c = s[i]
    OBVIOUS
  <2>2. s[k] # NULL /\ c \in Block
    BY <1>1, Sizes
  <2> QED
    BY <1>4, <2>1, <2>2 DEF From
<1> QED
  BY <1>3, <1>5

(* ... and the list holds the entries.                                     *)
LEMMA LinkedEntries ==
  ASSUME NEW n \in Nat, NEW s \in [1..n -> Block], Listed(n, s)
  PROVE  Linked = entries
<1>1. CASE n = 0
  <2>1. route_table = NULL /\ entries = {}
    BY <1>1 DEF Listed
  <2>2. From(NULL) = {}
    <3> SUFFICES ASSUME NEW c \in From(NULL) PROVE FALSE
      OBVIOUS
    <3>1. {} \in SUBSET Block /\ NULL \in {} \cup {NULL}
      OBVIOUS
    <3>2. c \in {}
      BY <3>1 DEF From
    <3> QED
      BY <3>2
  <2> QED
    BY <2>1, <2>2 DEF Linked
<1>2. CASE n # 0
  <2>1. route_table = s[1] /\ 1 \in 1..n /\ entries = {s[j] : j \in 1..n}
    BY <1>2 DEF Listed
  <2>2. From(s[1]) = {s[j] : j \in 1..n}
    BY <2>1, FromEntry
  <2> QED
    BY <2>1, <2>2 DEF Linked
<1> QED
  BY <1>1, <1>2

LEMMA ListInit == Init => ListInv
<1> SUFFICES ASSUME Init PROVE ListInv
  OBVIOUS
<1> DEFINE s == [i \in 1..0 |-> CHOOSE b \in Block : TRUE]
<1>1. s \in [1..0 -> Block]
  OBVIOUS
<1>2. Listed(0, s) /\ Shown(0, s)
  BY DEF Init, Listed, Shown
<1> QED
  BY <1>1, <1>2 DEF ListInv

(* A route that is saved comes last.                                       *)
LEMMA ListSaved ==
  ASSUME TypeOK, NEW b \in Block, Save(b),
         NEW n \in Nat, NEW s \in [1..n -> Block], Listed(n, s), Shown(n, s)
  PROVE  ListInv'
<1> DEFINE t == [i \in 1..(n + 1) |-> IF i = n + 1 THEN b ELSE s[i]]
<1>1. t \in [1..(n + 1) -> Block] /\ n + 1 \in Nat
  OBVIOUS
<1>2. /\ t[n + 1] = b
      /\ \A i \in 1..n : t[i] = s[i] /\ i \in 1..(n + 1) /\ i # n + 1 /\ s[i] \in Block
      /\ \A i \in 1..(n + 1) : i \in 1..n \/ i = n + 1
  OBVIOUS
<1> HIDE DEF t
<1>3. /\ b \notin entries /\ entries' = entries \cup {b}
      /\ unseen' = (IF pt = "list" THEN unseen \cup {b} ELSE unseen)
      /\ UNCHANGED <<pt, r, stale>>
      /\ route_table' = (IF route_table = NULL THEN b ELSE route_table)
      /\ \A c \in Block : next'[c] = (IF c = b THEN NULL
                                      ELSE IF c \in entries /\ next[c] = NULL THEN b
                                      ELSE next[c])
  BY LinkedEntries DEF Save, SavedLast
<1>4. entries = {s[i] : i \in 1..n} /\ \A i \in 1..n : s[i] # b /\ s[i] \in entries
  BY <1>3 DEF Listed
<1>5. \A i, j \in 1..(n + 1) : t[i] = t[j] => i = j
  BY <1>2, <1>4 DEF Listed
<1>6. entries' = {t[i] : i \in 1..(n + 1)}
  BY <1>2, <1>3, <1>4
<1>7. route_table' = t[1]
  <2>1. CASE n = 0
    BY <1>2, <1>3, <2>1 DEF Listed
  <2>2. CASE n # 0
    <3>1. 1 \in 1..n /\ route_table = s[1] /\ s[1] # NULL
      BY <1>2, <2>2, Sizes DEF Listed
    <3> QED
      BY <1>2, <1>3, <3>1
  <2> QED
    BY <2>1, <2>2
<1>8. \A i \in 1..(n + 1) : next'[t[i]] = IF i = n + 1 THEN NULL ELSE t[i + 1]
  <2>1. next'[t[n + 1]] = NULL
    BY <1>2, <1>3
  <2>2. ASSUME NEW i \in 1..n PROVE next'[t[i]] = t[i + 1]
    <3>1. t[i] = s[i] /\ s[i] # b /\ s[i] \in entries /\ s[i] \in Block
      BY <1>2, <1>4
    <3>2. CASE i = n
      BY <1>2, <1>3, <3>1, <3>2 DEF Listed
    <3>3. CASE i # n
      <4>1. i + 1 \in 1..n
        BY <3>3
      <4>2. next[s[i]] = s[i + 1] /\ s[i + 1] # NULL /\ t[i + 1] = s[i + 1]
        BY <1>2, <3>3, <4>1, Sizes DEF Listed
      <4> QED
        BY <1>3, <3>1, <4>2
    <3> QED
      BY <3>2, <3>3
  <2> QED
    BY <1>2, <2>1, <2>2
<1>9. Listed(n + 1, t)'
  <2>1. n + 1 # 0
    OBVIOUS
  <2> QED
    BY <1>5, <1>6, <1>7, <1>8, <2>1 DEF Listed
<1>10. Shown(n + 1, t)'
  <2> SUFFICES ASSUME pt' = "list", ~ stale'
               PROVE  \E k \in 1..(n + 1) : r' = t[k] /\ unseen' = {t[j] : j \in (k + 1)..(n + 1)}
    BY DEF Shown
  <2>1. PICK k \in 1..n : r = s[k] /\ unseen = {s[j] : j \in (k + 1)..n}
    BY <1>3 DEF Shown
  <2>2. k \in 1..(n + 1) /\ r' = t[k] /\ unseen' = unseen \cup {b}
    BY <1>2, <1>3, <2>1
  <2>3. /\ n + 1 \in (k + 1)..(n + 1)
        /\ \A j \in (k + 1)..n : j \in 1..n /\ j \in (k + 1)..(n + 1)
        /\ \A j \in (k + 1)..(n + 1) : j \in (k + 1)..n \/ j = n + 1
    OBVIOUS
  <2>4. unseen' = {t[j] : j \in (k + 1)..(n + 1)}
    BY <1>2, <2>1, <2>2, <2>3
  <2> QED
    BY <2>2, <2>4
<1> QED
  BY <1>1, <1>9, <1>10 DEF ListInv

(* A route that is purged leaves the others in order.                      *)
LEMMA ListPurged ==
  ASSUME TypeOK, NEW b \in Block, Purge(b),
         NEW n \in Nat, NEW s \in [1..n -> Block], Listed(n, s), Shown(n, s)
  PROVE  ListInv'
<1>1. PICK p \in 1..n : b = s[p]
  BY DEF Purge, Listed
<1>2. n > 0 /\ n - 1 \in Nat
  BY <1>1
<1> DEFINE t == [i \in 1..(n - 1) |-> IF i < p THEN s[i] ELSE s[i + 1]]
           Old(i) == IF i < p THEN i ELSE i + 1
<1>3. \A i \in 1..(n - 1) : Old(i) \in 1..n /\ Old(i) # p /\ t[i] = s[Old(i)]
  BY <1>2
<1>4. \A j \in 1..n : j # p => \E i \in 1..(n - 1) : Old(i) = j
  <2> SUFFICES ASSUME NEW j \in 1..n, j # p PROVE \E i \in 1..(n - 1) : Old(i) = j
    OBVIOUS
  <2>1. CASE j < p
    <3>1. j \in 1..(n - 1) /\ Old(j) = j
      BY <2>1
    <3> QED
      BY <3>1
  <2>2. CASE j > p
    <3>1. j - 1 \in 1..(n - 1) /\ Old(j - 1) = j
      BY <2>2
    <3> QED
      BY <3>1
  <2> QED
    BY <2>1, <2>2
<1>5. t \in [1..(n - 1) -> Block]
  BY <1>3
<1>6. \A i, j \in 1..(n - 1) : (Old(i) = Old(j) => i = j) /\ (i < j <=> Old(i) < Old(j))
  BY <1>2
<1>7. \A i \in 1..(n - 1) : IF i + 1 = p THEN Old(i) = i /\ p = i + 1
                            ELSE Old(i) + 1 = Old(i + 1)
  BY <1>2
<1> HIDE DEF t
<1>8. /\ entries = {s[i] : i \in 1..n} /\ entries' = entries \ {b}
      /\ unseen' = unseen \ {b} /\ UNCHANGED <<pt, r>>
      /\ stale' = (stale \/ (pt = "list" /\ r = b))
      /\ route_table' = (IF route_table = b THEN next[b] ELSE route_table)
      /\ \A c \in Block : next'[c] = (IF c \in entries /\ next[c] = b THEN next[b] ELSE next[c])
  BY LinkedEntries DEF Purge, route_delete, Listed
<1>9. /\ \A i, j \in 1..n : s[i] = s[j] => i = j
      /\ \A i \in 1..n : next[s[i]] = (IF i = n THEN NULL ELSE s[i + 1])
      /\ \A i \in 1..n : s[i] \in Block /\ s[i] \in entries /\ s[i] # NULL
      /\ route_table = s[1] /\ 1 \in 1..n
  BY <1>2, <1>8, Sizes DEF Listed
<1> HIDE DEF Old
<1>10. \A i, j \in 1..(n - 1) : t[i] = t[j] => i = j
  BY <1>3, <1>6, <1>9
<1>11. entries' = {t[i] : i \in 1..(n - 1)}
  <2>1. ASSUME NEW i \in 1..(n - 1) PROVE t[i] \in entries'
    <3>1. Old(i) \in 1..n /\ Old(i) # p /\ t[i] = s[Old(i)]
      BY <1>3
    <3> QED
      BY <1>1, <1>8, <1>9, <3>1
  <2>2. ASSUME NEW c \in entries' PROVE \E i \in 1..(n - 1) : c = t[i]
    <3>1. PICK j \in 1..n : c = s[j]
      BY <1>8
    <3>2. j # p
      BY <1>1, <1>8, <3>1
    <3> QED
      BY <1>3, <1>4, <3>1, <3>2
  <2> QED
    BY <2>1, <2>2
<1>12. route_table' = IF n - 1 = 0 THEN NULL ELSE t[1]
  <2>1. CASE p = 1
    <3>1. route_table' = (IF n = 1 THEN NULL ELSE s[2])
      BY <1>1, <1>8, <1>9, <2>1
    <3>2. n - 1 # 0 => 1 \in 1..(n - 1) /\ Old(1) = 2
      BY <1>2, <2>1 DEF Old
    <3> QED
      BY <1>2, <1>3, <3>1, <3>2
  <2>2. CASE p # 1
    <3>1. n - 1 # 0 /\ 1 \in 1..(n - 1) /\ Old(1) = 1
      BY <1>1, <1>2, <2>2 DEF Old
    <3>2. route_table' = s[1]
      BY <1>1, <1>8, <1>9, <2>2
    <3> QED
      BY <1>3, <3>1, <3>2
  <2> QED
    BY <2>1, <2>2
<1>13. ASSUME NEW i \in 1..(n - 1)
       PROVE  next'[t[i]] = IF i = n - 1 THEN NULL ELSE t[i + 1]
  <2>1. /\ Old(i) \in 1..n /\ Old(i) # p /\ t[i] = s[Old(i)]
        /\ s[Old(i)] \in Block /\ s[Old(i)] \in entries
    BY <1>3, <1>9
  <2>2. CASE i + 1 = p
    <3>1. Old(i) = i /\ i \in 1..n /\ i # n /\ i + 1 \in 1..n
      BY <1>2, <1>7, <2>2
    <3>2. next[s[i]] = b
      BY <1>1, <1>9, <2>2, <3>1
    <3>3. next'[t[i]] = next[b]
      BY <1>8, <2>1, <3>1, <3>2
    <3>4. next[b] = IF p = n THEN NULL ELSE s[p + 1]
      BY <1>1, <1>9
    <3>5. p = n <=> i = n - 1
      BY <1>2, <2>2
    <3>6. i # n - 1 => i + 1 \in 1..(n - 1) /\ Old(i + 1) = p + 1
      BY <1>2, <2>2 DEF Old
    <3> QED
      BY <1>3, <3>3, <3>4, <3>5, <3>6
  <2>3. CASE i + 1 # p
    <3>1. Old(i) + 1 = Old(i + 1)
      BY <1>7, <2>3
    <3>2. Old(i) = n <=> i = n - 1
      BY <1>1, <1>2, <2>3 DEF Old
    <3>3. i # n - 1 => /\ i + 1 \in 1..(n - 1)
                       /\ Old(i + 1) \in 1..n /\ Old(i + 1) # p
      BY <1>2, <1>3
    <3>4. next[s[Old(i)]] = IF i = n - 1 THEN NULL ELSE s[Old(i + 1)]
      BY <1>9, <2>1, <3>1, <3>2
    <3>5. next[s[Old(i)]] # b
      BY <1>1, <1>9, <3>3, <3>4
    <3>6. next'[t[i]] = next[s[Old(i)]]
      BY <1>8, <2>1, <3>5
    <3> QED
      BY <1>3, <3>3, <3>4, <3>6
  <2> QED
    BY <2>2, <2>3
<1>14. Listed(n - 1, t)'
  BY <1>10, <1>11, <1>12, <1>13 DEF Listed
<1>15. Shown(n - 1, t)'
  <2> SUFFICES ASSUME pt' = "list", ~ stale'
               PROVE  \E k \in 1..(n - 1) : r' = t[k] /\ unseen' = {t[j] : j \in (k + 1)..(n - 1)}
    BY DEF Shown
  <2>1. pt = "list" /\ ~ stale /\ r # b
    BY <1>8
  <2>2. PICK m \in 1..n : r = s[m] /\ unseen = {s[j] : j \in (m + 1)..n}
    BY <2>1 DEF Shown
  <2>3. PICK k \in 1..(n - 1) : Old(k) = m
    BY <1>1, <1>4, <2>1, <2>2
  <2>4. r' = t[k]
    BY <1>3, <1>8, <2>2, <2>3
  <2>5. ASSUME NEW j \in (k + 1)..(n - 1) PROVE t[j] \in unseen'
    <3>1. j \in 1..(n - 1) /\ k < j
      OBVIOUS
    <3>2. Old(j) \in 1..n /\ Old(j) # p /\ t[j] = s[Old(j)] /\ m < Old(j)
      BY <1>3, <1>6, <2>3, <3>1
    <3>3. Old(j) \in (m + 1)..n
      BY <3>2
    <3> QED
      BY <1>1, <1>8, <1>9, <2>2, <3>2, <3>3
  <2>6. ASSUME NEW c \in unseen' PROVE \E j \in (k + 1)..(n - 1) : c = t[j]
    <3>1. PICK i \in (m + 1)..n : c = s[i]
      BY <1>8, <2>2
    <3>2. i \in 1..n /\ i # p /\ m < i
      BY <1>1, <1>8, <3>1
    <3>3. PICK j \in 1..(n - 1) : Old(j) = i
      BY <1>4, <3>2
    <3>4. k < j
      BY <1>6, <2>3, <3>2, <3>3
    <3>5. j \in (k + 1)..(n - 1)
      BY <3>4
    <3> QED
      BY <1>3, <3>1, <3>3, <3>5
  <2> QED
    BY <2>4, <2>5, <2>6
<1> QED
  BY <1>2, <1>5, <1>14, <1>15 DEF ListInv

LEMMA ListNextInv == TypeOK /\ ListInv /\ [Next]_vars => ListInv'
<1> SUFFICES ASSUME TypeOK, ListInv, [Next]_vars PROVE ListInv'
  OBVIOUS
<1>1. PICK n \in Nat : \E s \in [1..n -> Block] : Listed(n, s) /\ Shown(n, s)
  BY DEF ListInv
<1>2. PICK s \in [1..n -> Block] : Listed(n, s) /\ Shown(n, s)
  BY <1>1
<1>3. ASSUME UNCHANGED routes PROVE Listed(n, s)'
  BY <1>2, <1>3 DEF routes, Listed
<1>4. ASSUME UNCHANGED routes, Shown(n, s)' PROVE ListInv'
  BY <1>3, <1>4 DEF ListInv
<1>5. CASE ListBegin
  <2>1. /\ UNCHANGED routes /\ r' = route_table /\ unseen' = entries \ {route_table}
        /\ pt' = (IF route_table = NULL THEN "prompt" ELSE "list")
    BY <1>5 DEF ListBegin, Lists
  <2>2. ASSUME pt' = "list"
        PROVE  \E k \in 1..n : r' = s[k] /\ unseen' = {s[j] : j \in (k + 1)..n}
    <3>1. n # 0 /\ 1 \in 1..n /\ route_table = s[1]
      BY <1>2, <2>1, <2>2 DEF Listed
    <3>2. entries = {s[j] : j \in 1..n}
      BY <1>2 DEF Listed
    <3>3. /\ \A j \in 1..n : j = 1 \/ j \in (1 + 1)..n
          /\ \A j \in (1 + 1)..n : j \in 1..n /\ j # 1 /\ s[j] # s[1]
      BY <1>2, <3>1 DEF Listed
    <3>4. unseen' = {s[j] : j \in (1 + 1)..n}
      BY <2>1, <3>1, <3>2, <3>3
    <3> QED
      BY <2>1, <3>1, <3>4
  <2> QED
    BY <1>4, <2>1, <2>2 DEF Shown
<1>6. CASE ListNext
  <2>1. /\ UNCHANGED <<route_table, next, entries, stale>> /\ pt = "list"
        /\ r' = next[r] /\ unseen' = unseen \ {next[r]}
        /\ pt' = (IF next[r] = NULL THEN "prompt" ELSE "list")
    BY <1>6 DEF ListNext, Lists, routes
  <2>2. ASSUME pt' = "list", ~ stale'
        PROVE  \E k \in 1..n : r' = s[k] /\ unseen' = {s[j] : j \in (k + 1)..n}
    <3>1. PICK k \in 1..n : r = s[k] /\ unseen = {s[j] : j \in (k + 1)..n}
      BY <1>2, <2>1, <2>2 DEF Shown
    <3>2. k # n /\ next[r] = s[k + 1] /\ k + 1 \in 1..n
      BY <1>2, <2>1, <2>2, <3>1 DEF Listed
    <3>3. /\ \A j \in (k + 1)..n : j \in 1..n /\ (j = k + 1 \/ j \in (k + 1 + 1)..n)
          /\ \A j \in (k + 1 + 1)..n : j \in (k + 1)..n /\ j \in 1..n /\ j # k + 1
      OBVIOUS
    <3>4. \A j \in (k + 1 + 1)..n : s[j] # s[k + 1]
      BY <1>2, <3>2, <3>3 DEF Listed
    <3>5. unseen' = {s[j] : j \in (k + 1 + 1)..n}
      BY <2>1, <3>1, <3>2, <3>3, <3>4
    <3> QED
      BY <2>1, <3>2, <3>5
  <2> QED
    BY <1>4, <2>1, <2>2 DEF Shown, routes
<1>7. ASSUME UNCHANGED <<routes, listing>>, pt' = pt \/ pt' # "list" PROVE ListInv'
  BY <1>2, <1>4, <1>7 DEF listing, Shown
<1>8. ASSUME NEW k \in Key, Type(k) PROVE ListInv'
  BY <1>7, <1>8 DEF Type
<1>9. CASE Prompted \/ Delete \/ Command
  BY <1>7, <1>9 DEF Prompted, Delete, Command
<1>10. CASE Enter
  BY <1>7, <1>10 DEF Enter, shell_data_parse
<1>11. CASE UNCHANGED vars
  BY <1>7, <1>11 DEF vars
<1>12. ASSUME NEW b \in Block, Save(b) \/ Purge(b) PROVE ListInv'
  BY <1>2, <1>12, ListSaved, ListPurged
<1> QED
  BY <1>5, <1>6, <1>8, <1>9, <1>10, <1>11, <1>12 DEF Next

LEMMA ListInvariant == Spec => []ListInv
<1>1. TypeOK /\ ListInv /\ [Next]_vars => ListInv'
  BY ListNextInv
<1> QED
  BY <1>1, ListInit, TypeCorrect, PTL DEF Spec

(* Until the entry on the line itself is purged, what the listing has yet  *)
(* to show is what comes after that entry, whatever is saved and purged    *)
(* meanwhile (shell.c:77-84, batman.c:64-98, 119-150).                     *)
THEOREM ListingsExact == Spec => []ListingExact
<1>1. ListInv => ListingExact
  <2> SUFFICES ASSUME ListInv, pt = "list", ~ stale PROVE unseen = From(r) \ {r}
    BY DEF ListingExact
  <2>1. PICK n \in Nat : \E s \in [1..n -> Block] : Listed(n, s) /\ Shown(n, s)
    BY DEF ListInv
  <2>2. PICK s \in [1..n -> Block] : Listed(n, s) /\ Shown(n, s)
    BY <2>1
  <2>3. PICK k \in 1..n : r = s[k] /\ unseen = {s[j] : j \in (k + 1)..n}
    BY <2>2 DEF Shown
  <2>4. From(r) = {s[j] : j \in k..n}
    BY <2>2, <2>3, FromEntry
  <2>5. /\ \A j \in k..n : j = k \/ j \in (k + 1)..n
        /\ \A j \in (k + 1)..n : j \in k..n /\ j \in 1..n /\ j # k /\ s[j] # s[k]
    BY <2>2 DEF Listed
  <2> QED
    BY <2>3, <2>4, <2>5
<1> QED
  BY <1>1, ListInvariant, PTL
=============================================================================
