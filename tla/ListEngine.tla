----------------------------- MODULE ListEngine -----------------------------
(***************************************************************************)
(* Re2Scanner and PythonReScanner (src/src/aiproxyguard/scanner/regex.py): *)
(* reload(), which runs on the event loop, against scan(), which runs in   *)
(* threads of the pool.  There is no lock; under the GIL a step is one     *)
(* bytecode that reads or writes shared state.  Lists are objects: a scan  *)
(* iterates over the list it found, which a reload may still be growing.   *)
(*                                                                         *)
(* An operator named Faulty... is a slip a change of the code could make;  *)
(* nothing here uses it (README.md).                                       *)
(***************************************************************************)
EXTENDS Integers, Sequences, Selection

CONSTANTS
  Scans,        \* pool threads
  MaxVersions,  \* bound: signature sets, the boot set included
  Size,         \* patterns in a set
  Invalid       \* patterns the engine refuses to compile

\* Pattern i of signature set v.
Patterns == [version : 1 .. MaxVersions, index : 1 .. Size]

\* What RegexScanner assumes of the constants.
ListConstants ==
  /\ MaxVersions \in Nat \ {0}
  /\ Size \in Nat
  /\ Invalid \subseteq Patterns

VARIABLES
  version,   \* _signatures
  loop,      \* reload(): idle, cleared (its own assignment) or compiling
  next,      \* all_patterns() of the reload: the next index
  lists,     \* every list object there has been, in order of creation
  compiled,  \* the object _compiled is bound to
  scan,      \* the locals of each scan()
  since      \* history: the set in force when the scan began; 0 during a reload

vars == <<version, loop, next, lists, compiled, scan, since>>

Ready == [pc |-> "ready", list |-> 1, applied |-> <<>>]

\* What a reload without interference builds.
Whole(v) == Select([i \in 1 .. Size |-> [version |-> v, index |-> i]], Patterns \ Invalid)

Init ==
  /\ version = 1
  /\ loop = "idle"
  /\ next = 1
  /\ lists = <<Whole(1)>>
  /\ compiled = 1
  /\ scan = [t \in Scans |-> Ready]
  /\ since = [t \in Scans |-> 0]

----------------------------------------------------------------------------
(* reload() and _compile_patterns().                                       *)

FaultyRebind ==
  /\ lists' = [lists EXCEPT ![compiled] = <<>>]   \* _compiled.clear()
  /\ UNCHANGED compiled

\* self._compiled = []
Rebind ==
  /\ lists' = Append(lists, <<>>)
  /\ compiled' = Len(lists')

ReloadStarts ==
  /\ loop = "idle" /\ version < MaxVersions
  /\ version' = version + 1
  /\ loop' = "cleared"
  /\ next' = 1
  /\ Rebind
  /\ UNCHANGED <<scan, since>>

CompileStarts ==
  /\ loop = "cleared"
  /\ loop' = "compiling"
  /\ Rebind
  /\ UNCHANGED <<version, next, scan, since>>

\* A pattern that does not compile is logged and left out.
Compiles ==
  /\ loop = "compiling" /\ next <= Size
  /\ LET p == [version |-> version, index |-> next]
     IN lists' = IF p \in Invalid THEN lists ELSE [lists EXCEPT ![compiled] = Append(@, p)]
  /\ next' = next + 1
  /\ UNCHANGED <<version, loop, compiled, scan, since>>

ReloadEnds ==
  /\ loop = "compiling" /\ next > Size
  /\ loop' = "idle"
  /\ UNCHANGED <<version, next, lists, compiled, scan, since>>

----------------------------------------------------------------------------
(* scan()                                                                  *)

\* The loop header evaluates self._compiled once.
ScanStarts(t) ==
  /\ scan[t].pc = "ready"
  /\ scan' = [scan EXCEPT ![t] = [pc |-> "iterating", list |-> compiled, applied |-> <<>>]]
  /\ since' = [since EXCEPT ![t] = IF loop = "idle" THEN version ELSE 0]
  /\ UNCHANGED <<version, loop, next, lists, compiled>>

\* The iterator looks at the list as it is now.
ScanGoesOn(t) ==
  /\ scan[t].pc = "iterating"
  /\ LET list == lists[scan[t].list]
         done == Len(scan[t].applied)
     IN scan' = IF done < Len(list)
                THEN [scan EXCEPT ![t].applied = Append(@, list[done + 1])]
                ELSE [scan EXCEPT ![t].pc = "done"]
  /\ UNCHANGED <<version, loop, next, lists, compiled, since>>

\* The caller has the matches.
ScanReturns(t) ==
  /\ scan[t].pc = "done"
  /\ scan' = [scan EXCEPT ![t] = Ready]
  /\ since' = [since EXCEPT ![t] = 0]
  /\ UNCHANGED <<version, loop, next, lists, compiled>>

----------------------------------------------------------------------------
Reload == ReloadStarts \/ CompileStarts \/ Compiles \/ ReloadEnds

Next == Reload \/ \E t \in Scans : ScanStarts(t) \/ ScanGoesOn(t) \/ ScanReturns(t)

Spec == Init /\ [][Next]_vars

----------------------------------------------------------------------------
(* Properties.                                                             *)

\* The type of every variable.
TypeOK ==
  /\ version \in 1 .. MaxVersions
  /\ loop \in {"idle", "cleared", "compiling"}
  /\ next \in 1 .. Size + 1
  /\ lists \in Seq(Seq(Patterns \ Invalid))
  /\ compiled \in DOMAIN lists
  /\ \A t \in Scans : /\ scan[t].pc \in {"ready", "iterating", "done"}
                      /\ scan[t].list \in DOMAIN lists
                      /\ scan[t].applied \in Seq(Patterns \ Invalid)
  /\ since \in [Scans -> 0 .. MaxVersions]

\* One scan never applies patterns of two signature sets, however often the
\* signatures are reloaded under it.
NoMixedVersions ==
  \A t \in Scans : \A i, j \in DOMAIN scan[t].applied :
    scan[t].applied[i].version = scan[t].applied[j].version

\* A scan that began between reloads applies every valid pattern of the set in
\* force at that moment, once and in order, whatever reloads start before it ends.
SettledScansAreWhole ==
  \A t \in Scans :
    scan[t].pc = "done" /\ since[t] # 0 => scan[t].applied = Whole(since[t])
=============================================================================
