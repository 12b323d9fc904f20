----------------------------- MODULE AddressMap -----------------------------
(***************************************************************************)
(* What the page-table library promises: a flat map from pages to what the *)
(* processor finds there.  A call changes the pages of its region, front   *)
(* to back, and no other page; one that runs out of memory has changed the *)
(* front part of its region only.  A change is not atomic: while some      *)
(* pages are changing, `map' has what they will be, and what the processor *)
(* finds there in the meantime is not promised.                            *)
(***************************************************************************)
EXTENDS Integers

CONSTANTS
  PageCount,
  Requests   \* [api, type, ro, xn]

VARIABLES
  map,       \* for each page what it translates to, or Unmapped
  todo,      \* the running call: what is left of its region
  changing,  \* how many pages at the front of it are being changed
  status

mapVars == <<map, todo, changing, status>>

Pages    == 0 .. PageCount - 1
Unmapped == [type |-> "none"]
NoCall   == [len |-> 0]

\* The caller's view of a request for a page p that is `old`.
Mapped(p, t, ro, xn) == [out |-> p, type |-> t, ro |-> ro, xn |-> xn]

Permissions(r, old) ==
  CASE r.api = "ArmSetMemoryRegionNoExec"     -> [old EXCEPT !.xn = TRUE]
    [] r.api = "ArmClearMemoryRegionNoExec"   -> [old EXCEPT !.xn = FALSE]
    [] r.api = "ArmSetMemoryRegionReadOnly"   -> [old EXCEPT !.ro = TRUE]
    [] r.api = "ArmClearMemoryRegionReadOnly" -> [old EXCEPT !.ro = FALSE]
    [] r.api = "ArmSetMemoryAttributes"       -> [old EXCEPT !.ro = r.ro,
                                                             !.xn = r.xn]

Applied(r, p, old) ==
  IF r.type # "none" THEN Mapped(p, r.type, r.ro, r.xn \/ r.type = "Device")
  ELSE IF old = Unmapped THEN Unmapped
  ELSE Permissions(r, old)

Call ==
  /\ todo = NoCall
  /\ todo' \in [request : Requests, start : Pages, len : 1 .. PageCount]
  /\ todo'.start + todo'.len <= PageCount
  /\ UNCHANGED <<map, changing, status>>

\* The change of the next k pages begins,
Begin(k) ==
  /\ todo # NoCall
  /\ changing = 0
  /\ k <= todo.len
  /\ changing' = k
  /\ map' = [p \in Pages |->
               IF p \in todo.start .. todo.start + k - 1
                 THEN Applied(todo.request, p, map[p]) ELSE map[p]]
  /\ UNCHANGED <<todo, status>>

\* and ends: from now on the processor finds them as `map' has them.
End ==
  /\ changing # 0
  /\ changing' = 0
  /\ IF changing = todo.len
       THEN todo' = NoCall /\ status' = "EFI_SUCCESS"
       ELSE /\ todo' = [todo EXCEPT !.start = @ + changing, !.len = @ - changing]
            /\ UNCHANGED status
  /\ UNCHANGED map

Fail ==
  /\ todo # NoCall
  /\ changing = 0
  /\ todo' = NoCall
  /\ status' = "EFI_OUT_OF_RESOURCES"
  /\ UNCHANGED <<map, changing>>

Init ==
  /\ map = [p \in Pages |-> Unmapped]
  /\ todo = NoCall
  /\ changing = 0
  /\ status = "none"

Next ==
  \/ Call
  \/ \E k \in 1 .. PageCount : Begin(k)
  \/ End
  \/ Fail

Spec == Init /\ [][Next]_mapVars
=============================================================================
