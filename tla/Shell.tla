------------------------------- MODULE Shell --------------------------------
(***************************************************************************)
(* The shell (shell.c): its line editor, and its listing of the routing    *)
(* table while the rest of the main loop changes that table.               *)
(*                                                                         *)
(* The shell reads a key per poll into cmd_buf until Enter, runs the       *)
(* command the line begins with, and prompts again.  Commands wait for the *)
(* serial line, some more than once; meanwhile timer_thread may purge the  *)
(* routing table and batman_rx may add to it.  The command l waits with a  *)
(* pointer into the table's linked list.                                   *)
(*                                                                         *)
(* The table is kept as the program keeps it, as linked blocks of the      *)
(* heap.  free leaves the link in a block; malloc hands out any block that *)
(* is free.  What a route says plays no part.                              *)
(***************************************************************************)
EXTENDS Naturals, Sequences

CONSTANTS
  MAX_CMD_BUF,    (* 80                                                     *)
  Key,            (* keys other than Enter and Delete                       *)
  Block,          (* blocks of the heap                                     *)
  NULL

ASSUME ShellAssumption ==
  /\ MAX_CMD_BUF \in Nat /\ MAX_CMD_BUF >= 3
  /\ NULL \notin Block
  /\ Key \cap {"enter", "delete", "nul"} = {}

VARIABLES
  pt,           (* where the shell waits                                    *)
  cmd_buf,      (* shell.c: cmd_buf                                         *)
  cmd,          (* shell.c: cmd, as an index into it                        *)
  line,         (* history: what the user has typed and not deleted         *)
  route_table,  (* batman.c: route_table, the first block                   *)
  next,         (* batman.c: next of each block                             *)
  entries,      (* history: the entries saved and not purged                *)
  r,            (* shell.c: r, the entry that is on the serial line         *)
  unseen,       (* history: entries the listing under way has yet to show   *)
  stale         (* history: r was freed under the listing                   *)

editor == <<cmd_buf, cmd, line>>
routes == <<route_table, next, entries>>
listing == <<r, unseen, stale>>
vars == <<pt, editor, routes, listing>>

Init ==
  /\ pt = "prompt"
  /\ cmd_buf = [i \in 0..(MAX_CMD_BUF - 1) |-> "nul"] /\ cmd = 0
  /\ line = <<>>
  /\ route_table = NULL /\ next = [b \in Block |-> NULL]
  /\ entries = {}
  /\ r = NULL /\ unseen = {} /\ stale = FALSE

-----------------------------------------------------------------------------
(* The linked list.                                                        *)

(* The blocks from b on: those in every set that holds b and what its      *)
(* members point to.                                                       *)
From(b) ==
  {c \in Block : \A S \in SUBSET Block :
     b \in S \cup {NULL} /\ (\A d \in S : next[d] \in S \cup {NULL}) => c \in S}

Linked == From(route_table)

(* route_save_or_update with a new route: it becomes the last.             *)
SavedLast(b) ==
  /\ route_table' = IF route_table = NULL THEN b ELSE route_table
  /\ next' = [c \in Block |-> IF c = b THEN NULL
                              ELSE IF c \in Linked /\ next[c] = NULL THEN b
                              ELSE next[c]]

\* Mutant: the first entry is unlinked like any other.
DeletesNotFirst(b) ==
  /\ UNCHANGED route_table
  /\ next' = [c \in Block |-> IF c \in Linked /\ next[c] = b THEN next[b]
                              ELSE next[c]]

route_delete(b) ==
  /\ route_table' = IF route_table = b THEN next[b] ELSE route_table
  /\ next' = [c \in Block |-> IF c \in Linked /\ next[c] = b THEN next[b]
                              ELSE next[c]]

(* batman_rx, with news of a route.                                        *)
Save(b) ==
  /\ b \notin entries
  /\ SavedLast(b)
  /\ entries' = entries \cup {b}
  /\ unseen' = IF pt = "list" THEN unseen \cup {b} ELSE unseen
  /\ UNCHANGED <<pt, editor, r, stale>>

(* timer_thread.  One that purges several entries is as many of these.     *)
Purge(b) ==
  /\ b \in entries
  /\ route_delete(b)
  /\ entries' = entries \ {b}
  /\ unseen' = unseen \ {b}
  /\ stale' = (stale \/ (pt = "list" /\ r = b))
  /\ UNCHANGED <<pt, editor, r>>

-----------------------------------------------------------------------------
(* The line editor: shell_data_available with a key, which uart_rx stores  *)
(* where cmd points.                                                       *)

Prompted ==
  /\ pt = "prompt"
  /\ pt' = "read" /\ line' = <<>>
  /\ UNCHANGED <<cmd_buf, cmd, routes, listing>>

\* Mutant: room is left for the newline only.
TypeLong(k) ==
  /\ pt = "read"
  /\ cmd_buf' = [cmd_buf EXCEPT ![cmd] = k]
  /\ cmd' = IF cmd # MAX_CMD_BUF - 1 THEN cmd + 1 ELSE cmd
  /\ line' = IF Len(line) < MAX_CMD_BUF - 2 THEN Append(line, k) ELSE line
  /\ UNCHANGED <<pt, routes, listing>>

Type(k) ==
  /\ pt = "read"
  /\ cmd_buf' = [cmd_buf EXCEPT ![cmd] = k]
  /\ cmd' = IF cmd # MAX_CMD_BUF - 2 THEN cmd + 1 ELSE cmd
  /\ line' = IF Len(line) < MAX_CMD_BUF - 2 THEN Append(line, k) ELSE line
  /\ UNCHANGED <<pt, routes, listing>>

Delete ==
  /\ pt = "read"
  /\ cmd_buf' = [cmd_buf EXCEPT ![cmd] = "delete"]
  /\ cmd' = IF cmd # 0 THEN cmd - 1 ELSE cmd
  /\ line' = IF line # <<>> THEN SubSeq(line, 1, Len(line) - 1) ELSE line
  /\ UNCHANGED <<pt, routes, listing>>

(* The command o orders an originator message and purges what the last     *)
(* second has left, which is nothing; no output follows.                   *)
shell_data_parse(c) ==
  IF c = "l" THEN "uart_wait" ELSE IF c = "o" THEN "prompt" ELSE "command"

\* Mutant: the next line goes on where this one ended.
EnterStays ==
  /\ pt = "read"
  /\ cmd_buf' = [cmd_buf EXCEPT ![cmd] = "enter", ![cmd + 1] = "nul"]
  /\ pt' = shell_data_parse(cmd_buf'[0])
  /\ UNCHANGED <<cmd, line, routes, listing>>

Enter ==
  /\ pt = "read"
  /\ cmd_buf' = [cmd_buf EXCEPT ![cmd] = "enter", ![cmd + 1] = "nul"]
  /\ cmd' = 0
  /\ pt' = shell_data_parse(cmd_buf'[0])
  /\ UNCHANGED <<line, routes, listing>>

-----------------------------------------------------------------------------
(* Commands.                                                               *)

(* One that reads cmd_buf, writes and sends; not to the table.             *)
Command ==
  /\ pt = "command"
  /\ pt' = "prompt"
  /\ UNCHANGED <<editor, routes, listing>>

(* shell_list writes the entry b, or ends.                                 *)
Lists(b) ==
  /\ r' = b
  /\ pt' = IF b = NULL THEN "prompt" ELSE "list"

(* It has got the line.                                                    *)
ListBegin ==
  /\ pt = "uart_wait"
  /\ Lists(route_table)
  /\ unseen' = entries \ {route_table} /\ stale' = FALSE
  /\ UNCHANGED <<editor, routes>>

(* The entry has been written: on to the next, by the link of whatever is  *)
(* in r's block now.                                                       *)
ListNext ==
  /\ pt = "list"
  /\ Lists(next[r])
  /\ unseen' = unseen \ {next[r]}
  /\ UNCHANGED <<editor, routes, stale>>

Next ==
  \/ Prompted \/ Delete \/ Enter \/ \E k \in Key : Type(k)
  \/ Command \/ ListBegin \/ ListNext
  \/ \E b \in Block : Save(b) \/ Purge(b)

Spec == Init /\ [][Next]_vars

-----------------------------------------------------------------------------
(* Properties.                                                             *)

TypeOK ==
  /\ pt \in {"prompt", "read", "command", "uart_wait", "list"}
  /\ cmd_buf \in [0..(MAX_CMD_BUF - 1) -> Key \cup {"enter", "delete", "nul"}]
  /\ cmd \in 0..(MAX_CMD_BUF - 2)
  /\ line \in Seq(Key) /\ Len(line) <= MAX_CMD_BUF - 2
  /\ route_table \in Block \cup {NULL}
  /\ next \in [Block -> Block \cup {NULL}]
  /\ entries \subseteq Block
  /\ r \in Block \cup {NULL} /\ (pt = "list" => r # NULL)
  /\ unseen \subseteq entries /\ stale \in BOOLEAN

(* A command finds the line as the user left it, to the end of its work,   *)
(* whatever was typed over and deleted, and at the limit of the buffer     *)
(* (shell.c:95, 121, 135-188).                                             *)
CommandAsTyped == pt \in {"command", "uart_wait", "list"} =>
  /\ \A i \in 1..Len(line) : cmd_buf[i - 1] = line[i]
  /\ cmd_buf[Len(line)] = "enter"
  /\ cmd_buf[Len(line) + 1] = "nul"

(* As long as the entry that is on the line is not purged, a listing shows *)
(* what is left of the table and what comes in, each entry once, though    *)
(* the table changes between its steps (shell.c:77-84).                    *)
ListingExact == pt = "list" /\ ~ stale => unseen = From(r) \ {r}
=============================================================================
