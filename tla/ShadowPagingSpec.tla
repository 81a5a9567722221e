--------------------------- MODULE ShadowPagingSpec ---------------------------
(***************************************************************************)
(* What the passthrough page-table engine promises (spec section 4.5),     *)
(* independent of the depth of the table: each guest page is unmapped,     *)
(* mapped read-only or mapped read-write, a fault maps the page as its     *)
(* region's policy says or forwards the access to the region's hook, and  *)
(* an invalidation unmaps one page and nothing else.                       *)
(***************************************************************************)
EXTENDS Naturals

CONSTANTS
  Addr,      \* guest pages
  Policy,    \* page -> "ALLOCATED", "WRITE_HOOK", "FULL_HOOK", "INVALID", "NONE"
  Frame      \* page -> the host frame backing it

VARIABLES
  perm,        \* page -> "none", "ro", "rw": what a guest access gets without a fault
  pending,     \* the access waiting on a fault, or NoAccess
  lastAccess,  \* the last completed access
  status       \* "running", "halted", "crashed"

NoAccess == [none |-> TRUE]

vars == <<perm, pending, lastAccess, status>>

Allows(p, w) == IF w THEN p = "rw" ELSE p \in {"ro", "rw"}

\* The mapping a fault installs for a page of each policy.
PolicyPerm(pol) == CASE pol = "ALLOCATED"  -> "rw"
                     [] pol = "WRITE_HOOK" -> "ro"
                     [] OTHER              -> "none"

\* Accesses the engine forwards to a hook instead of resolving.
Forwarded(pol, w) == pol = "FULL_HOOK" \/ (pol = "WRITE_HOOK" /\ w)

Init ==
  /\ perm = [a \in Addr |-> "none"]
  /\ pending = NoAccess
  /\ lastAccess = NoAccess
  /\ status = "running"

Complete(a, w) == lastAccess' = [addr |-> a, write |-> w, via |-> "mmu", frame |-> Frame[a]]

GuestAccess(a, w) ==
  /\ status = "running" /\ pending = NoAccess
  /\ IF Allows(perm[a], w) THEN Complete(a, w) /\ UNCHANGED pending
     ELSE pending' = [addr |-> a, write |-> w, resumed |-> FALSE] /\ UNCHANGED lastAccess
  /\ UNCHANGED <<perm, status>>

Reexecute ==
  LET a == pending.addr
      w == pending.write
  IN  /\ status = "running" /\ pending /= NoAccess /\ pending.resumed
      /\ IF Allows(perm[a], w) THEN Complete(a, w) /\ pending' = NoAccess
         ELSE pending' = [pending EXCEPT !.resumed = FALSE] /\ UNCHANGED lastAccess
      /\ UNCHANGED <<perm, status>>

\* A fault: the page gets its policy's mapping (if it had none); the access
\* is then forwarded, re-executed, or the core stops on a missing or
\* unknown region or a failing hook.
HandleFault ==
  LET a == pending.addr
      w == pending.write
      pol == Policy[a]
  IN  /\ status = "running" /\ pending /= NoAccess /\ ~pending.resumed
      /\ perm' = [perm EXCEPT ![a] = IF @ = "none" THEN PolicyPerm(pol) ELSE @]
      /\ \/ /\ pol \in {"NONE", "INVALID"}
            /\ status' = "halted" /\ UNCHANGED <<pending, lastAccess>>
         \/ /\ pol \notin {"NONE", "INVALID"} /\ Forwarded(pol, w)
            /\ \/ /\ lastAccess' = [addr |-> a, write |-> w, via |-> "hook", frame |-> 0]
                  /\ pending' = NoAccess /\ UNCHANGED status
               \/ status' = "halted" /\ UNCHANGED <<pending, lastAccess>>
         \/ /\ pol \notin {"NONE", "INVALID"} /\ ~Forwarded(pol, w)
            /\ pending' = [pending EXCEPT !.resumed = TRUE]
            /\ UNCHANGED <<lastAccess, status>>

Invalidate(a) ==
  /\ status = "running" /\ pending = NoAccess
  /\ perm' = [perm EXCEPT ![a] = "none"]
  /\ UNCHANGED <<pending, lastAccess, status>>

\* A fault may fail for lack of memory for a table (spec section 5: page
\* allocation exhaustion fails the fault, fatally for this core only): the
\* core stops and no page's mapping changes.
FaultFails ==
  /\ status = "running" /\ pending /= NoAccess /\ ~pending.resumed
  /\ status' = "halted"
  /\ UNCHANGED <<perm, pending, lastAccess>>

Stopped == status /= "running" /\ UNCHANGED vars

Next ==
  \/ \E a \in Addr, w \in BOOLEAN : GuestAccess(a, w)
  \/ Reexecute \/ HandleFault \/ FaultFails \/ Stopped
  \/ \E a \in Addr : Invalidate(a)

Spec == Init /\ [][Next]_vars
=============================================================================
