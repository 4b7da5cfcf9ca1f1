---------------------------- MODULE ReconcileProofs ----------------------------
(***************************************************************************)
(* Proofs about the sweep: its types, and that between two windows nothing *)
(* falls through.                                                          *)
(***************************************************************************)
EXTENDS ReconcileProperties, TLAPS

(***************************************************************************)
(* Types.                                                                  *)
(***************************************************************************)

LEMMA InitTypes == Init => TypeOK
<1> SUFFICES ASSUME Init PROVE TypeOK
  OBVIOUS
<1>1. errors \in [Processes -> BOOLEAN]
  <2>1. errors = [p \in Processes |-> FALSE]
    BY DEF Init
  <2> QED
    BY <2>1
<1>2. cut \in BOOLEAN
  BY Zenon DEF Init
<1> USE ReconcileAssumption DEF ReconcileAssumption, Init
<1>3. clock \in Times /\ mark \in Times \cup {Never}
  BY DEF Times
<1>4. /\ content \in [Records -> Contents] /\ hash \in [Records -> Contents]
      /\ stamp \in [Records -> Stamps]
      /\ queue \in [Records -> Contents \cup {Live, None}]
  BY DEF Stamps
<1>5. phase \in [Processes -> Phases] /\ start \in [Processes -> Times]
  BY DEF Phases, Times
<1>6. /\ since \in [Processes -> -(Lookback + Overlap) .. MaxTime]
      /\ listed \in [Processes -> SUBSET (Contacts \X Stamps)]
      /\ pages \in [Processes -> 0 .. MaxPages]
  OBVIOUS
<1>7. /\ got \in [Processes -> [Records -> Contents \cup {None}]]
      /\ changed \in [Processes -> SUBSET Records]
  BY DEF NothingGot
<1>8. edits \in 0 .. MaxEdits /\ faults \in 0 .. MaxFaults
  OBVIOUS
<1> QED
  BY <1>1, <1>2, <1>3, <1>4, <1>5, <1>6, <1>7, <1>8 DEF TypeOK

LEMMA LeaveTypes ==
  ASSUME TypeOK, NEW p \in Processes, Leave(p)
  PROVE  /\ phase' \in [Processes -> Phases]
         /\ start' \in [Processes -> Times]
         /\ since' \in [Processes -> -(Lookback + Overlap) .. MaxTime]
         /\ listed' \in [Processes -> SUBSET (Contacts \X Stamps)]
         /\ pages' \in [Processes -> 0 .. MaxPages]
         /\ got' \in [Processes -> [Records -> Contents \cup {None}]]
         /\ changed' \in [Processes -> SUBSET Records]
         /\ errors' \in [Processes -> BOOLEAN]
BY ReconcileAssumption
DEF ReconcileAssumption, Leave, DropHand, Go, TypeOK, Times, Phases,
  NothingGot

LEMMA ReadTypes ==
  ASSUME TypeOK, NEW p \in Processes, NEW S \in SUBSET Records, Read(p, S)
  PROVE  got' \in [Processes -> [Records -> Contents \cup {None}]]
BY DEF Read, TypeOK

(* TypeOK is inductive. *)
LEMMA NextTypes == TypeOK /\ [Next]_vars => TypeOK'
<1> SUFFICES ASSUME TypeOK, [Next]_vars PROVE TypeOK'
  OBVIOUS
<1> USE ReconcileAssumption DEF ReconcileAssumption
<1>1. CASE Tick
  BY <1>1 DEF Tick, TypeOK, Times, recordVars, queueVars, passVars, scanVars,
      handVars, countVars
<1>2. ASSUME NEW r \in Records, NEW v \in Contents, NEW told \in BOOLEAN,
             NEW skew \in -Skew .. Skew, Edit(r, v, told, skew)
      PROVE  TypeOK'
  <2>1. stamp' \in [Records -> Stamps]
    BY <1>2 DEF Edit, TypeOK, Times, Stamps
  <2>2. queue' \in [Records -> Contents \cup {Live, None}]
    BY <1>2 DEF Edit, TypeOK
  <2>3. edits' \in 0 .. MaxEdits /\ content' \in [Records -> Contents]
    BY <1>2 DEF Edit, TypeOK
  <2> QED
    BY <1>2, <2>1, <2>2, <2>3 DEF Edit, TypeOK, passVars, scanVars, handVars
<1>3. ASSUME NEW r \in Records, Sync(r)
      PROVE  TypeOK'
  <2>1. hash' \in [Records -> Contents]
    BY <1>3 DEF Sync, TypeOK
  <2> QED
    BY <1>3, <2>1 DEF Sync, TypeOK, recordVars, passVars, scanVars, handVars,
        countVars
<1>4. ASSUME NEW p \in Processes, ReconcileStep(p)
      PROVE  TypeOK'
  <2>1. CASE Begin(p)
    BY <2>1
    DEF Begin, Go, TypeOK, Phases, recordVars, queueVars, scanVars, handVars,
        countVars
  <2>2. CASE ListActive(p)
    <3>1. WindowStart(mark, start[p]) \in -(Lookback + Overlap) .. MaxTime
      BY DEF WindowStart, TypeOK, Times
    <3> QED
      BY <2>2, <3>1 DEF ListActive, Go, TypeOK, Phases, recordVars, queueVars,
        scanVars, handVars, countVars
  <2>3. CASE Page(p)
    <3>1. PICK S \in SUBSET Ahead(p) :
            /\ Read(p, S)
            /\ listed' = [listed EXCEPT ![p] = @ \cup {<<r, stamp[r]>> : r \in S}]
            /\ pages' = [pages EXCEPT ![p] = @ + 1]
            /\ Go(p, IF S = Ahead(p) \/ pages[p] + 1 = MaxPages
                     THEN "queueContacts" ELSE "contacts")
            /\ cut' = (cut \/ ((S = Ahead(p) \/ pages[p] + 1 = MaxPages)
                               /\ S # Ahead(p)))
      BY <2>3 DEF Page
    <3>2. S \subseteq Contacts /\ S \subseteq Records
      BY DEF Ahead, Records
    <3>3. got' \in [Processes -> [Records -> Contents \cup {None}]]
      BY <3>1, <3>2, ReadTypes
    <3>4. listed' \in [Processes -> SUBSET (Contacts \X Stamps)]
      <4>1. \A r \in S : <<r, stamp[r]>> \in Contacts \X Stamps
        BY <3>2 DEF TypeOK
      <4> QED
        BY <3>1, <4>1 DEF TypeOK
    <3>5. pages' \in [Processes -> 0 .. MaxPages]
      BY <2>3, <3>1 DEF Page, TypeOK
    <3>6. phase' \in [Processes -> Phases] /\ cut' \in BOOLEAN
      BY <3>1 DEF TypeOK, Go, Phases
    <3> QED
      BY <2>3, <3>3, <3>4, <3>5, <3>6 DEF Page, TypeOK, recordVars, queueVars,
        passVars, countVars
  <2>4. CASE ContactsDone(p)
    BY <2>4
    DEF ContactsDone, Go, TypeOK, Phases, recordVars, queueVars, passVars,
      scanVars, handVars, countVars
  <2>5. CASE ListCustomers(p)
    <3>1. got' \in [Processes -> [Records -> Contents \cup {None}]]
      BY <2>5, ReadTypes DEF ListCustomers, Records
    <3> QED
      BY <2>5, <3>1
      DEF ListCustomers, Go, TypeOK, Phases, recordVars, queueVars,
        passVars, scanVars, handVars, countVars
  <2>6. CASE CustomersDone(p)
    BY <2>6
    DEF CustomersDone, Go, TypeOK, Phases, recordVars, queueVars, passVars,
      scanVars, handVars, countVars
  <2>7. ASSUME NEW r \in Records, Consider(p, r)
        PROVE  TypeOK'
    <3>1. got' \in [Processes -> [Records -> Contents \cup {None}]]
      <4>1. CASE got' = got
        BY <4>1 DEF TypeOK
      <4>2. CASE got' = [got EXCEPT ![p][r] = None]
        BY <4>2 DEF TypeOK
      <4> QED
        BY <2>7, <4>1, <4>2 DEF Consider
    <3>2. changed' \in [Processes -> SUBSET Records]
      <4>1. CASE changed' = changed
        BY <4>1 DEF TypeOK
      <4>2. CASE changed' = [changed EXCEPT ![p] = {r}]
        <5>1. {r} \in SUBSET Records
          OBVIOUS
        <5> QED
          BY <4>2, <5>1 DEF TypeOK
      <4> QED
        BY <2>7, <4>1, <4>2 DEF Consider
    <3> QED
      BY <2>7, <3>1, <3>2 DEF Consider, TypeOK, recordVars, queueVars, passVars,
        scanVars, countVars
  <2>8. ASSUME NEW r \in Records, Enqueue(p, r)
        PROVE  TypeOK'
    <3>1. queue' \in [Records -> Contents \cup {Live, None}]
      BY <2>8 DEF Enqueue, TypeOK
    <3>2. /\ got' \in [Processes -> [Records -> Contents \cup {None}]]
          /\ changed' \in [Processes -> SUBSET Records]
      BY <2>8 DEF Enqueue, TypeOK
    <3> QED
      BY <2>8, <3>1, <3>2 DEF Enqueue, TypeOK, recordVars, passVars, scanVars,
        countVars
  <2>9. CASE SetMark(p)
    <3>1. mark' \in Times \cup {Never}
      BY <2>9 DEF SetMark, MarkAt, TypeOK
    <3> QED
      BY <2>9, <3>1, LeaveTypes
      DEF SetMark, TypeOK, recordVars, queueVars, countVars
  <2> QED
    BY <1>4, <2>1, <2>2, <2>3, <2>4, <2>5, <2>6, <2>7, <2>8, <2>9
    DEF ReconcileStep
<1>5. ASSUME NEW p \in Processes, ScanFails(p)
      PROVE  TypeOK'
  <2>1. phase' \in [Processes -> Phases] /\ faults' \in 0 .. MaxFaults
    BY <1>5 DEF ScanFails, Fault, Go, TypeOK, Phases
  <2> QED
    BY <1>5, <2>1
    DEF ScanFails, Fault, DropHand, TypeOK, NothingGot, recordVars, queueVars,
      passVars, scanVars, handVars
<1>6. ASSUME NEW p \in Processes, PassFails(p)
      PROVE  TypeOK'
  BY <1>6, LeaveTypes DEF PassFails, Fault, TypeOK, recordVars, queueVars
<1>7. CASE UNCHANGED vars
  BY <1>7
  DEF vars, TypeOK, recordVars, queueVars, passVars, scanVars, handVars,
      countVars
<1> QED
  BY <1>1, <1>2, <1>3, <1>4, <1>5, <1>6, <1>7 DEF Next

(* TypeOK holds at all times: no window begins in the future.             *)
THEOREM SweepTypeCorrect == Spec => []TypeOK
BY InitTypes, NextTypes, PTL DEF Spec
(***************************************************************************)
(* What falls between two windows: nothing.                                *)
(***************************************************************************)

LEMMA SweepInvInit == Init => SweepInv
BY ReconcileAssumption DEF ReconcileAssumption, Init, SweepInv, ClockInv,
  NothingOld, ListedInHand, SidesDone, SideDone, FoundByOverlap, NothingGot

(* A pass lists every record that is not accounted for and has not been    *)
(* modified since the pass began.                                          *)
LEMMA WindowReaches ==
  ASSUME TypeOK, Punctual, ClockInv, FoundByOverlap, ~cut,
         NEW p \in Processes, phase[p] \notin {"idle", "list"},
         NEW r \in Records, ~Accounted(r)
  PROVE  stamp[r] >= since[p]
<1> USE ReconcileAssumption DEF ReconcileAssumption
<1>1. since[p] = WindowStart(mark, start[p]) /\ start[p] <= clock
  BY DEF ClockInv
<1>2. stamp[r] \in Int /\ stamp[r] >= -Skew /\ start[p] \in Int
  BY DEF TypeOK, Stamps, Times
<1>3. CASE mark = Never
  <2>1. clock \in Int /\ clock <= Lookback /\ Skew <= Overlap
    BY <1>3 DEF ClockInv, Punctual, TypeOK, Times
  <2> QED
    BY <1>1, <1>2, <1>3, <2>1 DEF WindowStart
<1>4. CASE mark # Never
  BY <1>1, <1>2, <1>4 DEF FoundByOverlap, WindowStart, TypeOK, Times
<1> QED
  BY <1>3, <1>4

(* What no pass, clock or watermark has to do with. *)
LEMMA SweepFrame ==
  ASSUME SweepInv,
         UNCHANGED <<mark, recordVars, queueVars, phase, passVars, scanVars,
                     handVars, errors>>
  PROVE  NothingOld' /\ ListedInHand' /\ SidesDone' /\ FoundByOverlap'
<1> USE DEF recordVars, queueVars, passVars, scanVars, handVars
<1>1. NothingOld'
  BY DEF SweepInv, NothingOld, Settled
<1>2. ListedInHand'
  BY DEF SweepInv, ListedInHand, Settled
<1>3. SidesDone'
  BY DEF SweepInv, SidesDone, SideDone, Settled, Accounted
<1>4. FoundByOverlap'
  BY DEF SweepInv, FoundByOverlap, Accounted
<1> QED
  BY <1>1, <1>2, <1>3, <1>4

LEMMA TickInv ==
  ASSUME TypeOK, Punctual, SweepInv, Tick
  PROVE  SweepInv'
<1>1. ClockInv'
  BY ReconcileAssumption
  DEF ReconcileAssumption, Tick, SweepInv, ClockInv, TypeOK,
    Times, Punctual, WindowStart, passVars
<1>2. NothingOld' /\ ListedInHand' /\ SidesDone' /\ FoundByOverlap'
  BY SweepFrame DEF Tick
<1> QED
  BY <1>1, <1>2 DEF SweepInv

(* An edited record is settled no longer, nor does it fall behind the      *)
(* overlap; the others stay as they are.                                   *)
LEMMA EditInv ==
  ASSUME TypeOK, Punctual, SweepInv,
         NEW r \in Records, NEW v \in Contents, NEW told \in BOOLEAN,
         NEW skew \in -Skew .. Skew, Edit(r, v, told, skew)
  PROVE  SweepInv'
<1> USE ReconcileAssumption DEF ReconcileAssumption, SweepInv
<1>1. UNCHANGED <<clock, mark, hash, phase, start, since, listed, got, changed,
                  errors, cut>>
  BY DEF Edit, passVars, scanVars, handVars
<1>2. \A x \in Records \ {r} :
        content'[x] = content[x] /\ stamp'[x] = stamp[x] /\ queue'[x] = queue[x]
  BY DEF Edit, TypeOK
<1>3. stamp'[r] = clock + skew
  BY DEF Edit, TypeOK
<1>4. clock \in Int /\ skew >= -Overlap /\ skew \in Int
  BY DEF TypeOK, Times, Punctual
<1>5. \A p \in Processes : phase[p] # "idle" => ~Settled(p, r)'
  BY <1>1, <1>3, <1>4 DEF Settled, ClockInv, TypeOK, Times
<1>6. \A p \in Processes, x \in Records : phase[p] # "idle" /\ Settled(p, x)' =>
        x # r /\ Settled(p, x)
  BY <1>1, <1>2, <1>5 DEF Settled
<1>7. \A x \in Records \ {r} : Accounted(x)' <=> Accounted(x)
  BY <1>1, <1>2 DEF Accounted
<1>8. ClockInv'
  BY <1>1 DEF ClockInv, WindowStart
<1>9. NothingOld'
  BY <1>1, <1>2, <1>6 DEF NothingOld
<1>10. ListedInHand'
  BY <1>1, <1>2, <1>6 DEF ListedInHand, Records
<1>11. SidesDone'
  BY <1>1, <1>2, <1>6, <1>7 DEF SidesDone, SideDone, Records
<1>12. FoundByOverlap'
  <2>1. mark # Never => stamp'[r] >= mark - Overlap
    BY <1>3, <1>4 DEF ClockInv, TypeOK, Times
  <2> QED
    BY <1>1, <1>2, <1>7, <2>1 DEF FoundByOverlap
<1> QED
  BY <1>8, <1>9, <1>10, <1>11, <1>12

(* A sync accounts for what was queued up to date. *)
LEMMA SyncSweepInv ==
  ASSUME TypeOK, SweepInv, NEW r \in Records, Sync(r)
  PROVE  SweepInv'
<1> USE ReconcileAssumption DEF ReconcileAssumption, SweepInv
<1>1. UNCHANGED <<clock, mark, content, stamp, phase, start, since, listed, got,
                  changed, errors, cut>>
  BY DEF Sync, recordVars, passVars, scanVars, handVars
<1>2. \A x \in Records : queue'[x] \in {None, queue[x]}
  BY DEF Sync, TypeOK
<1>3. \A x \in Records : Accounted(x) => Accounted(x)'
  BY DEF Sync, TypeOK, Accounted, recordVars
<1>4. ClockInv' /\ ListedInHand'
  BY <1>1 DEF ClockInv, WindowStart, ListedInHand, Settled
<1>5. NothingOld'
  BY <1>1, <1>2 DEF NothingOld, Settled
<1>6. SidesDone'
  BY <1>1, <1>3 DEF SidesDone, SideDone, Settled, Records
<1>7. FoundByOverlap'
  BY <1>1, <1>3 DEF FoundByOverlap
<1> QED
  BY <1>4, <1>5, <1>6, <1>7

(* The steps of a pass.  No other process has one under way.               *)

LEMMA BeginInv ==
  ASSUME TypeOK, Punctual, SweepInv, NEW p \in Processes, Begin(p)
  PROVE  SweepInv'
<1> USE ReconcileAssumption DEF ReconcileAssumption, SweepInv
<1>1. /\ UNCHANGED <<clock, mark, content, stamp, queue, hash, listed, got,
                     changed, errors, cut>>
      /\ phase'[p] = "list" /\ start'[p] = clock
  BY DEF Begin, Go, TypeOK, recordVars, queueVars, scanVars, handVars
<1>2. \A q \in Processes : q = p
  BY DEF Punctual
<1>3. ClockInv'
  BY <1>1, <1>2 DEF ClockInv, TypeOK, Times
<1>4. NothingOld'
  <2>1. \A r \in Records : queue[r] = None
    BY DEF Begin, Punctual
  <2>2. \A r \in Records : got[p][r] = None
    BY DEF Begin, ListedInHand, NothingGot
  <2> QED
    BY <1>1, <1>2, <2>1, <2>2 DEF NothingOld
<1>5. ListedInHand'
  BY <1>1, <1>2 DEF Begin, ListedInHand
<1>6. SidesDone' /\ FoundByOverlap'
  BY <1>1, <1>2 DEF SidesDone, SideDone, FoundByOverlap, Accounted
<1> QED
  BY <1>3, <1>4, <1>5, <1>6

LEMMA ListActiveInv ==
  ASSUME TypeOK, Punctual, SweepInv, NEW p \in Processes, ListActive(p)
  PROVE  SweepInv'
<1> USE ReconcileAssumption DEF ReconcileAssumption, SweepInv
<1>1. /\ UNCHANGED <<clock, mark, content, stamp, queue, hash, start, listed,
                     got, changed, errors, cut>>
      /\ phase[p] = "list" /\ phase'[p] = "contacts"
      /\ since'[p] = WindowStart(mark, start[p])
  BY DEF ListActive, Go, TypeOK, recordVars, queueVars, scanVars, handVars
<1>2. \A q \in Processes : q = p
  BY DEF Punctual
<1>3. ClockInv'
  BY <1>1, <1>2 DEF ClockInv, WindowStart
<1>4. NothingOld'
  BY <1>1, <1>2 DEF NothingOld, Settled
<1>5. ListedInHand'
  BY <1>1, <1>2 DEF ListedInHand
<1>6. SidesDone' /\ FoundByOverlap'
  BY <1>1, <1>2 DEF SidesDone, SideDone, FoundByOverlap, Accounted
<1> QED
  BY <1>3, <1>4, <1>5, <1>6

(* The records of a page are in hand as they are; when it is the last, and *)
(* nothing is cut off, so is every contact of the window.                  *)
LEMMA PageInv ==
  ASSUME TypeOK, Punctual, SweepInv, NEW p \in Processes, Page(p)
  PROVE  SweepInv'
<1> USE ReconcileAssumption DEF ReconcileAssumption, SweepInv
<1>1. PICK S \in SUBSET Ahead(p) :
        /\ Read(p, S)
        /\ listed' = [listed EXCEPT ![p] = @ \cup {<<r, stamp[r]>> : r \in S}]
        /\ Go(p, IF S = Ahead(p) \/ pages[p] + 1 = MaxPages
                 THEN "queueContacts" ELSE "contacts")
        /\ cut' = (cut \/ ((S = Ahead(p) \/ pages[p] + 1 = MaxPages)
                           /\ S # Ahead(p)))
  BY DEF Page
<1>2. /\ UNCHANGED <<clock, mark, content, stamp, queue, hash, start, since,
                     changed, errors>>
      /\ phase[p] = "contacts"
      /\ phase'[p] \in {"contacts", "queueContacts"}
      /\ phase'[p] = "queueContacts" /\ ~cut' => S = Ahead(p) /\ ~cut
  BY <1>1 DEF Page, Go, TypeOK, recordVars, queueVars, passVars
<1>3. \A r \in Records : got'[p][r] = IF r \in S THEN content[r] ELSE got[p][r]
  BY <1>1 DEF Read, TypeOK
<1>4. listed'[p] = listed[p] \cup {<<r, stamp[r]>> : r \in S}
  BY <1>1 DEF TypeOK
<1>5. \A q \in Processes : q = p
  BY DEF Punctual
<1>6. ClockInv'
  BY <1>2, <1>5 DEF ClockInv, WindowStart
<1>7. NothingOld'
  BY <1>2, <1>3, <1>5 DEF NothingOld, Settled
<1>8. ListedInHand'
  <2> SUFFICES ASSUME NEW r \in Contacts, Settled(p, r)', phase'[p] = "contacts",
                      <<r, stamp[r]>> \in listed'[p]
               PROVE  got'[p][r] = content[r]
    BY <1>2, <1>5 DEF ListedInHand
  <2>1. r \in S \/ <<r, stamp[r]>> \in listed[p]
    BY <1>4
  <2> QED
    BY <1>2, <1>3, <2>1 DEF ListedInHand, Settled, Records
<1>9. SidesDone'
  <2> SUFFICES ASSUME ~cut', phase'[p] = "queueContacts",
                      NEW r \in Contacts, Settled(p, r)', ~Accounted(r)'
               PROVE  got'[p][r] = content[r]
    BY <1>2, <1>5 DEF SidesDone, SideDone
  <2>1. ~cut /\ S = Ahead(p) /\ ~Accounted(r) /\ r \in Records
    BY <1>2 DEF Accounted, Records
  <2>2. stamp[r] >= since[p]
    BY <1>2, <2>1, WindowReaches
  <2>3. r \in S \/ <<r, stamp[r]>> \in listed[p]
    BY <2>1, <2>2 DEF Ahead
  <2> QED
    BY <1>2, <1>3, <2>1, <2>3 DEF ListedInHand, Settled
<1>10. FoundByOverlap'
  BY <1>1, <1>2 DEF FoundByOverlap, Accounted
<1> QED
  BY <1>6, <1>7, <1>8, <1>9, <1>10

(* A settled record whose hash is the one in hand is accounted for; the    *)
(* others are still in hand.                                               *)
LEMMA ConsiderInv ==
  ASSUME TypeOK, Punctual, SweepInv,
         NEW p \in Processes, NEW r \in Records, Consider(p, r)
  PROVE  SweepInv'
<1> USE ReconcileAssumption DEF ReconcileAssumption, SweepInv
<1>1. /\ UNCHANGED <<clock, mark, content, stamp, queue, hash, phase, start,
                     since, listed, errors, cut>>
      /\ phase[p] \in {"queueContacts", "queueCustomers"}
      /\ got[p][r] # None
  BY DEF Consider, recordVars, queueVars, passVars, scanVars
<1>2. \A q \in Processes : q = p
  BY DEF Punctual
<1>3. \/ changed' = changed /\ changed[p] = {}
      \/ got' = got /\ changed'[p] = {r}
  BY DEF Consider, TypeOK
<1>4. \A x \in Records : got'[p][x] = got[p][x] \/ (x = r /\ got'[p][x] = None)
  BY DEF Consider, TypeOK
<1>5. Settled(p, r) => got[p][r] = content[r] /\ queue[r] \in {None, content[r]}
  BY <1>1 DEF NothingOld
<1>6. Settled(p, r) /\ got'[p][r] # got[p][r] => Accounted(r)
  BY <1>5 DEF Consider, Accounted
<1>7. ClockInv'
  BY <1>1 DEF ClockInv, WindowStart
<1>8. NothingOld'
  BY <1>1, <1>2, <1>4 DEF NothingOld, Settled
<1>9. ListedInHand'
  BY <1>1, <1>2, <1>3 DEF ListedInHand
<1>10. SidesDone'
  <2>1. \A x \in Records : Accounted(x)' <=> Accounted(x)
    BY <1>1 DEF Accounted
  <2> QED
    BY <1>1, <1>2, <1>4, <1>6, <2>1 DEF SidesDone, SideDone, Settled, Records
<1>11. FoundByOverlap'
  BY <1>1 DEF FoundByOverlap, Accounted
<1> QED
  BY <1>7, <1>8, <1>9, <1>10, <1>11

(* What was settled and accounted for stays so; a record that is not       *)
(* settled is found by the next pass.  A sync since the comparison makes   *)
(* no difference to that.                                                  *)
LEMMA EnqueueInv ==
  ASSUME TypeOK, Punctual, SweepInv,
         NEW p \in Processes, NEW r \in Records, Enqueue(p, r)
  PROVE  SweepInv'
<1> USE ReconcileAssumption DEF ReconcileAssumption, SweepInv
<1>1. /\ UNCHANGED <<clock, mark, content, stamp, hash, phase, start, since,
                     listed, errors, cut>>
      /\ phase[p] \in {"queueContacts", "queueCustomers"}
      /\ got[p][r] # None /\ changed'[p] = {}
  BY DEF Enqueue, recordVars, passVars, scanVars, TypeOK, ListedInHand
<1>2. \A x \in Records : got'[p][x] = IF x = r THEN None ELSE got[p][x]
  BY DEF Enqueue, TypeOK
<1>3. \A x \in Records : queue'[x] = IF x = r THEN got[p][r] ELSE queue[x]
  BY DEF Enqueue, TypeOK
<1>4. \A q \in Processes : q = p
  BY DEF Punctual
<1>5. Settled(p, r) => got[p][r] = content[r]
  BY <1>1 DEF NothingOld
<1>6. Settled(p, r) => Accounted(r)'
  BY <1>1, <1>3, <1>5 DEF Accounted
<1>7. \A x \in Records : Settled(p, x) /\ Accounted(x) => Accounted(x)'
  BY <1>1, <1>3, <1>6 DEF Accounted
<1>8. ClockInv'
  BY <1>1 DEF ClockInv, WindowStart
<1>9. NothingOld'
  BY <1>1, <1>2, <1>3, <1>4, <1>5 DEF NothingOld, Settled
<1>10. ListedInHand'
  BY <1>1, <1>4 DEF ListedInHand
<1>11. SidesDone'
  BY <1>1, <1>2, <1>4, <1>6, <1>7 DEF SidesDone, SideDone, Settled, Records
<1>12. FoundByOverlap'
  <2>1. mark # Never => mark <= start[p] /\ start[p] \in Int /\ mark \in Int
    BY <1>1 DEF ClockInv, TypeOK, Times
  <2>2. \A x \in Records : stamp[x] \in Int
    BY DEF TypeOK, Stamps
  <2>3. mark # Never => \A x \in Records :
          Settled(p, x) \/ stamp[x] >= mark - Overlap
    BY <2>1, <2>2 DEF Settled
  <2> QED
    BY <1>1, <1>7, <2>3 DEF FoundByOverlap
<1> QED
  BY <1>8, <1>9, <1>10, <1>11, <1>12

LEMMA SideEndsInv ==
  ASSUME TypeOK, Punctual, SweepInv,
         NEW p \in Processes, ContactsDone(p) \/ CustomersDone(p)
  PROVE  SweepInv'
<1> USE ReconcileAssumption DEF ReconcileAssumption, SweepInv
<1>1. /\ UNCHANGED <<clock, mark, content, stamp, queue, hash, start, since,
                     listed, got, changed, errors, cut>>
      /\ \/ phase[p] = "queueContacts" /\ phase'[p] = "customers"
         \/ phase[p] = "queueCustomers" /\ phase'[p] = "mark"
      /\ got[p] = NothingGot /\ changed[p] = {}
  BY DEF ContactsDone, CustomersDone, Go, TypeOK, recordVars, queueVars,
         passVars,
    scanVars, handVars, ListedInHand, NothingGot
<1>2. \A q \in Processes : q = p
  BY DEF Punctual
<1>3. \A r \in Records : got[p][r] # content[r]
  BY <1>1 DEF NothingGot, TypeOK
<1>4. ClockInv' /\ NothingOld' /\ ListedInHand'
  BY <1>1, <1>2 DEF ClockInv, WindowStart, NothingOld, ListedInHand, Settled
<1>5. SidesDone'
  BY <1>1, <1>2, <1>3 DEF SidesDone, SideDone, Settled, Accounted, Records
<1>6. FoundByOverlap'
  BY <1>1 DEF FoundByOverlap, Accounted
<1> QED
  BY <1>4, <1>5, <1>6

LEMMA ListCustomersInv ==
  ASSUME TypeOK, Punctual, SweepInv, NEW p \in Processes, ListCustomers(p)
  PROVE  SweepInv'
<1> USE ReconcileAssumption DEF ReconcileAssumption, SweepInv
<1> DEFINE S == {r \in Customers : ShopLists /\ stamp[r] >= since[p]}
<1>1. /\ UNCHANGED <<clock, mark, content, stamp, queue, hash, start, since,
                     listed, changed, errors, cut>>
      /\ phase[p] = "customers" /\ phase'[p] = "queueCustomers"
      /\ Read(p, S)
  BY DEF ListCustomers, Go, TypeOK, recordVars, queueVars, passVars, scanVars,
      handVars
<1>2. \A r \in Records : got'[p][r] = IF r \in S THEN content[r] ELSE got[p][r]
  BY <1>1 DEF Read, TypeOK
<1>3. \A q \in Processes : q = p
  BY DEF Punctual
<1>4. ClockInv' /\ ListedInHand'
  BY <1>1, <1>3 DEF ClockInv, WindowStart, ListedInHand
<1>5. NothingOld'
  BY <1>1, <1>2, <1>3 DEF NothingOld, Settled
<1>6. SidesDone'
  <2>1. ASSUME ~cut, NEW r \in Customers, ~Accounted(r)
        PROVE  got'[p][r] = content[r]
    <3>1. stamp[r] >= since[p] /\ r \in Records
      BY <1>1, <2>1, WindowReaches DEF Records
    <3>2. r \in S
      BY <3>1 DEF Punctual
    <3> QED
      BY <1>2, <3>1, <3>2
  <2>2. \A r \in Records : Accounted(r)' <=> Accounted(r)
    BY <1>1 DEF Accounted
  <2>3. ASSUME ~cut, ~errors[p]
        PROVE  SideDone(p, Contacts, {"queueContacts"},
                        {"customers", "queueCustomers", "mark"})'
    BY <1>1, <2>2, <2>3 DEF SidesDone, SideDone, Settled, Records
  <2>4. ASSUME ~cut, ~errors[p]
        PROVE  SideDone(p, Customers, {"queueCustomers"}, {"mark"})'
    BY <1>1, <2>1, <2>2, <2>4 DEF SideDone, Settled, Records
  <2> QED
    BY <1>1, <1>3, <2>3, <2>4 DEF SidesDone
<1>7. FoundByOverlap'
  BY <1>1 DEF FoundByOverlap, Accounted
<1> QED
  BY <1>4, <1>5, <1>6, <1>7

LEMMA ScanFailsInv ==
  ASSUME TypeOK, Punctual, SweepInv, NEW p \in Processes, ScanFails(p)
  PROVE  SweepInv'
<1> USE ReconcileAssumption DEF ReconcileAssumption, SweepInv
<1>1. /\ UNCHANGED <<clock, mark, content, stamp, queue, hash, start, since,
                     listed, cut>>
      /\ phase[p] \notin {"idle", "list"} /\ phase'[p] \in {"customers", "mark"}
      /\ got'[p] = NothingGot /\ changed'[p] = {}
  BY DEF ScanFails, DropHand, Go, TypeOK, recordVars, queueVars, passVars,
      scanVars, handVars
<1>2. errors'[p]
  BY DEF ScanFails, TypeOK
<1>3. \A q \in Processes : q = p
  BY DEF Punctual
<1>4. ClockInv' /\ ListedInHand'
  BY <1>1, <1>3 DEF ClockInv, WindowStart, ListedInHand
<1>5. NothingOld'
  BY <1>1, <1>3 DEF NothingOld, Settled, NothingGot
<1>6. SidesDone'
  BY <1>2, <1>3 DEF SidesDone
<1>7. FoundByOverlap'
  BY <1>1 DEF FoundByOverlap, Accounted
<1> QED
  BY <1>4, <1>5, <1>6, <1>7

(* The pass is over: whatever its end does to the watermark, these hold.   *)
LEMMA LeaveInv ==
  ASSUME TypeOK, Punctual, NEW p \in Processes, Leave(p)
  PROVE  /\ phase'[p] = "idle"
         /\ \A q \in Processes : q = p
         /\ NothingOld' /\ ListedInHand' /\ SidesDone'
<1>1. /\ phase'[p] = "idle" /\ listed'[p] = {}
      /\ got'[p] = NothingGot /\ changed'[p] = {}
  BY DEF Leave, DropHand, Go, TypeOK
<1>2. \A q \in Processes : q = p
  BY DEF Punctual
<1>3. NothingOld' /\ ListedInHand' /\ SidesDone'
  BY <1>1, <1>2 DEF NothingOld, ListedInHand, SidesDone, SideDone
<1> QED
  BY <1>1, <1>2, <1>3

(* A clean pass may take its start for the watermark: it has accounted for *)
(* every record that was settled then.                                     *)
LEMMA SetMarkInv ==
  ASSUME TypeOK, Punctual, SweepInv, NEW p \in Processes, SetMark(p)
  PROVE  SweepInv'
<1> USE ReconcileAssumption DEF ReconcileAssumption, SweepInv
<1>1. /\ UNCHANGED <<clock, content, stamp, queue, hash, cut>>
      /\ phase[p] = "mark" /\ Leave(p)
      /\ mark' = IF ~errors[p] THEN start[p] ELSE mark
  BY DEF SetMark, Clean, MarkAt, recordVars, queueVars
<1>2. /\ phase'[p] = "idle"
      /\ \A q \in Processes : q = p
      /\ NothingOld' /\ ListedInHand' /\ SidesDone'
  BY <1>1, LeaveInv
<1>3. ClockInv'
  BY <1>1, <1>2 DEF ClockInv, TypeOK, Times
<1>4. CASE errors[p]
  BY <1>1, <1>2, <1>3, <1>4 DEF FoundByOverlap, Accounted
<1>5. CASE ~errors[p] /\ ~cut
  <2>1. \A r \in Records : Settled(p, r) => Accounted(r)
    BY <1>1, <1>5 DEF SidesDone, SideDone, Records
  <2>2. \A r \in Records : stamp[r] \in Int /\ start[p] \in Int
    BY DEF TypeOK, Stamps, Times
  <2>3. \A r \in Records : Accounted(r) \/ stamp[r] >= start[p] - Overlap
    BY <2>1, <2>2 DEF Settled
  <2>4. FoundByOverlap'
    BY <1>1, <1>5, <2>3 DEF FoundByOverlap, Accounted
  <2> QED
    BY <1>2, <1>3, <2>4
<1>6. CASE cut
  BY <1>1, <1>2, <1>3, <1>6 DEF FoundByOverlap
<1> QED
  BY <1>4, <1>5, <1>6

LEMMA PassFailsInv ==
  ASSUME TypeOK, Punctual, SweepInv, NEW p \in Processes, PassFails(p)
  PROVE  SweepInv'
<1> USE DEF SweepInv
<1>1. UNCHANGED <<clock, mark, content, stamp, queue, hash, cut>> /\ Leave(p)
  BY DEF PassFails, recordVars, queueVars
<1>2. /\ phase'[p] = "idle"
      /\ \A q \in Processes : q = p
      /\ NothingOld' /\ ListedInHand' /\ SidesDone'
  BY <1>1, LeaveInv
<1>3. ClockInv' /\ FoundByOverlap'
  BY <1>1, <1>2 DEF ClockInv, FoundByOverlap, Accounted
<1> QED
  BY <1>2, <1>3

(* SweepInv is inductive. *)
LEMMA SweepInvNext ==
  ASSUME TypeOK, Punctual, SweepInv, [Next]_vars
  PROVE  SweepInv'
<1>1. CASE Tick
  BY <1>1, TickInv
<1>2. ASSUME NEW r \in Records, Sync(r)
      PROVE  SweepInv'
  BY <1>2, SyncSweepInv
<1>3. ASSUME NEW r \in Records, NEW v \in Contents, NEW told \in BOOLEAN,
             NEW skew \in -Skew .. Skew, Edit(r, v, told, skew)
      PROVE  SweepInv'
  BY <1>3, EditInv
<1>4. ASSUME NEW p \in Processes, ReconcileStep(p)
      PROVE  SweepInv'
  BY <1>4, BeginInv, ListActiveInv, PageInv, ConsiderInv, EnqueueInv, SideEndsInv,
    ListCustomersInv, SetMarkInv DEF ReconcileStep
<1>5. ASSUME NEW p \in Processes, ScanFails(p) \/ PassFails(p)
      PROVE  SweepInv'
  BY <1>5, ScanFailsInv, PassFailsInv
<1>6. CASE UNCHANGED vars
  <2>1. ClockInv'
    BY <1>6 DEF SweepInv, ClockInv, WindowStart, vars, passVars
  <2>2. NothingOld' /\ ListedInHand' /\ SidesDone' /\ FoundByOverlap'
    BY <1>6, SweepFrame DEF vars
  <2> QED
    BY <2>1, <2>2 DEF SweepInv
<1> QED
  BY <1>1, <1>2, <1>3, <1>4, <1>5, <1>6 DEF Next

(* What was modified after the watermark less the overlap is in the window *)
(* of the next pass; before the first clean pass everything is.            *)
LEMMA FoundByNextPass ==
  ASSUME TypeOK, Punctual, SweepInv
  PROVE  NothingFallsBetween
<1> USE ReconcileAssumption DEF ReconcileAssumption
<1> SUFFICES ASSUME ~cut, NEW r \in Records, ~Accounted(r)
             PROVE  InWindow(r)
  BY DEF NothingFallsBetween, SweepMissesNothing
<1>1. stamp[r] \in Int /\ stamp[r] >= -Skew /\ Skew <= Overlap
  BY DEF TypeOK, Stamps, Punctual
<1>2. CASE mark = Never
  <2>1. clock \in Int /\ clock <= Lookback
    BY <1>2 DEF SweepInv, ClockInv, TypeOK, Times
  <2> QED
    BY <1>1, <1>2, <2>1 DEF InWindow, WindowStart
<1>3. CASE mark # Never
  BY <1>1, <1>3 DEF SweepInv, FoundByOverlap, InWindow, WindowStart
<1> QED
  BY <1>2, <1>3

(* The inductive invariant of the sweep, for one process with work that is *)
(* done between passes.                                                    *)
THEOREM SweepInvHolds == Punctual => (Spec => []SweepInv)
<1> SUFFICES ASSUME Punctual PROVE Spec => []SweepInv
  OBVIOUS
<1>1. Init => TypeOK /\ SweepInv
  BY InitTypes, SweepInvInit
<1>2. TypeOK /\ SweepInv /\ [Next]_vars => TypeOK' /\ SweepInv'
  BY NextTypes, SweepInvNext
<1> QED
  BY <1>1, <1>2, PTL DEF Spec

(* Whatever is edited, lost, or fails, in any order with the passes: a     *)
(* change that is not accounted for is in the window of the next pass,     *)
(* unless a scan was cut off at MaxPages.                                  *)
THEOREM NothingFallsBetweenHolds == Punctual => (Spec => []NothingFallsBetween)
<1> SUFFICES ASSUME Punctual PROVE Spec => []NothingFallsBetween
  OBVIOUS
<1>1. TypeOK /\ SweepInv => NothingFallsBetween
  BY FoundByNextPass
<1>2. Spec => []SweepInv
  BY SweepInvHolds
<1> QED
  BY <1>1, <1>2, SweepTypeCorrect, PTL
=============================================================================
