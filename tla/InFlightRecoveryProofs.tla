------------------------ MODULE InFlightRecoveryProofs ------------------------
(* Theorems about InFlightRecovery, for any number of stories, dispatches,     *)
(* edits, crashes and failed calls: no crash takes a claim past the gate, hides *)
(* a change of a protected file, commits another's work for a story, or has a  *)
(* verdict acted on twice or before it was finished.                           *)
EXTENDS InFlightRecovery, TLAPS

-----------------------------------------------------------------------------
(* Types.                                                                      *)

Authors == Stories \cup {"op"}
Marks == Stories \cup {"op", "note", "ledger"}
Printed == UNION {[fs -> Contents] : fs \in SUBSET Files}
Lefts == [story : Stories \cup {"none"}, files : Printed]
Baselines == Contents \cup {Unverified}
Guards == Baselines \cup {NotHeld}
MaybeTexts == Texts \cup {Nothing}
Pendings == {"none", "pause", "dispatch", "handback", "auditor", "planner", "finalizer"}

Records == [role : Roles \cup {"nobody"}, phase : {"none", "dispatch", "handback"},
            text : MaybeTexts, dirty : Printed, base : Seq(Marks), guard : Baselines,
            back : MaybeTexts, backHead : Seq(Marks)]
Runs == [role : Roles \cup {"nobody"}, text : MaybeTexts, pre : Printed,
         base : Seq(Marks), guard : Baselines, left : Lefts,
         prev : {<<>>} \cup ((Roles \cup {"nobody"}) \X MaybeTexts),
         pending : Pendings, held : Guards, back : BOOLEAN, written : BOOLEAN,
         failed : BOOLEAN]
Sights == {"no", "yes", "lost", "dropped"}
Excuses == [excused : Contents, waived : BOOLEAN, unseen : Sights, whole : BOOLEAN,
            closed : BOOLEAN, again : BOOLEAN]

Shape ==
  /\ handoff \in Texts
  /\ tree \in [Files -> Contents]
  /\ head \in Seq(Marks)
  /\ record \in Records
  /\ carry \in Lefts
  /\ run \in Runs
  /\ told \in Excuses

(* What is assumed of the constants.                                           *)
LEMMA Constants ==
  /\ MaxEdits \in Nat /\ MaxEdits >= 1
  /\ Stories \cap {"none", "op", "note", "ledger", "unverified", "unheld"} = {}
BY InFlightAssumption DEF InFlightAssumption

(* The markers that stand for no content are none.                             *)
LEMMA NoContent ==
  Unverified \notin Contents /\ NotHeld \notin Contents /\ Unverified # NotHeld
<1>1. ASSUME NEW x, <<x>> \in Seq(Authors)
      PROVE  x \in Authors
  BY <1>1
<1>2. "unverified" \notin Authors /\ "unheld" \notin Authors
  BY Constants DEF Authors
<1>3. Unverified # NotHeld
  BY DEF Unverified, NotHeld
<1>4. \A c \in Contents : c \in Seq(Authors)
  BY DEF Contents, Authors
<1> QED BY <1>1, <1>2, <1>3, <1>4 DEF Unverified, NotHeld

(* What is listed of files has the type of a list.                             *)
LEMMA Lists ==
  /\ Nothing \in Printed
  /\ \A fs \in SUBSET Files : \A g \in [fs -> Contents] : g \in Printed
  /\ \A g \in Printed : DOMAIN g \subseteq Files /\ \A f \in DOMAIN g : g[f] \in Contents
<1>1. \A fs \in SUBSET Files : \A g \in [fs -> Contents] : g \in Printed
  BY DEF Printed
<1>2. Nothing \in [{} -> Contents]
  BY DEF Nothing
<1>3. ASSUME NEW g \in Printed
      PROVE  DOMAIN g \subseteq Files /\ \A f \in DOMAIN g : g[f] \in Contents
  BY DEF Printed
<1> QED BY <1>1, <1>2, <1>3

LEMMA PrintsList ==
  ASSUME Shape, NEW fs \in SUBSET Files
  PROVE  Prints(fs) \in Printed
<1>1. Prints(fs) \in [fs -> Contents]
  BY DEF Prints, Shape
<1> QED BY <1>1, Lists

(* Empty sequences, records and memories have their types.                     *)
LEMMA Empty ==
  /\ <<>> \in Contents /\ <<>> \in Baselines /\ <<>> \in Seq(Marks)
  /\ NoRecord \in Records /\ NoCarry \in Lefts /\ Idle \in Runs
<1>1. <<>> \in Contents /\ <<>> \in Baselines /\ <<>> \in Seq(Marks)
  BY Constants DEF Contents, Baselines
<1>2. Nothing \in MaybeTexts /\ Nothing \in Printed /\ NotHeld \in Guards
  BY Lists DEF MaybeTexts, Guards
<1>3. NoCarry \in Lefts
  BY <1>2 DEF NoCarry, Lefts
<1>4. NoRecord \in Records
  BY <1>1, <1>2 DEF NoRecord, Records
<1>5. Idle \in Runs
  BY <1>1, <1>2, <1>3 DEF Idle, Runs, Pendings
<1> QED BY <1>1, <1>3, <1>4, <1>5

(* The shape holds at first.                                                   *)
LEMMA ShapeInit == Init => Shape
<1> SUFFICES ASSUME Init PROVE Shape
  OBVIOUS
<1>1. handoff \in Texts
  BY DEF Init, Texts, Kinds
<1>2. tree \in [Files -> Contents]
  <2>1. <<>> \in Contents /\ <<"op">> \in Contents
    <3>1. "op" \in Authors
      BY DEF Authors
    <3>2. <<"op">> \in Seq(Authors) /\ Len(<<"op">>) = 1
      BY <3>1
    <3> QED BY <3>2, Constants, Empty DEF Contents, Authors
  <2> QED BY <2>1 DEF Init
<1> QED BY <1>1, <1>2, Empty DEF Init, Shape, Excuses, Sights

-----------------------------------------------------------------------------
(* The shape is kept.  It needs to know which text a record or a running role *)
(* works from: one of a kind that names the role, or that it is recovered to. *)

AtWork == {"running", "returned", "recorded", "checked", "committed", "unnamed", "refreshed"}
Waiting == {"adopting", "restoring", "top", "paused"}

KindsOf == [planner |-> {"done", "approved"}, backend |-> {"assign"},
            auditor |-> {"claim", "stamped", "gated"}, finalizer |-> {"approved"}]
Fits(role, text) == role \in Roles /\ text \in Texts /\ text.kind \in KindsOf[role]

RecordFits ==
  /\ record.role # "nobody" => Fits(record.role, record.text)
  /\ record.phase = "handback" => record.role = "backend" /\ record.back \in Texts

WorkFits ==
  /\ pc \in AtWork => Fits(run.role, run.text)
  /\ pc \in AtWork \ {"running", "returned"} => run.role = "backend"
  /\ pc \in {"running", "returned"} /\ run.written =>
       record.role = run.role /\ record.phase = "dispatch"
  /\ pc = "running" /\ run.role = "finalizer" =>
       handoff = run.text \/ handoff.kind \in {"half", "done"}

MemoryFits ==
  /\ pc \in {"down", "recovering", "unrecorded"} => run = Idle
  /\ pc \in Waiting =>
       /\ run.prev # <<>> => Fits(run.prev[1], run.prev[2]) /\ run.pending = "none"
       /\ run.pending = "handback" => Fits("backend", run.text) /\ run.held # NotHeld
       /\ run.pending = "dispatch" => Fits("backend", handoff)
       /\ run.pending \in {"auditor", "planner", "finalizer"} => Fits(run.pending, handoff)
       /\ pc = "paused" => run.pending \in {"none", "pause"}
       /\ pc = "restoring" => run.pending \notin {"pause", "dispatch", "handback"}

KindInv == RecordFits /\ WorkFits /\ MemoryFits

(* The helpers of the handlers.                                                *)
LEMMA LostShape ==
  ASSUME Shape
  PROVE  Lost \in Sights /\ Lost # "yes" /\ Unasked \in Sights
BY DEF Shape, Excuses, Sights, Lost, Unasked

LEMMA EndsShape ==
  ASSUME Shape, Ends
  PROVE  run' \in Runs /\ told' \in Excuses
<1> DEFINE waived == told.waived \/ Unrecorded \/ run.pending \in {"handback", "pause"}
           whole == told.whole \/ Unrecorded \/ run.pending = "auditor"
           unseen == IF Unrecorded \/ record.role = "nobody" THEN Lost ELSE told.unseen
           again == told.again \/ record.role # "finalizer"
<1>1. waived \in BOOLEAN /\ whole \in BOOLEAN /\ unseen \in Sights /\ again \in BOOLEAN
  BY LostShape DEF Shape, Excuses
<1>2. told' = [told EXCEPT !.waived = waived, !.whole = whole, !.unseen = unseen,
                           !.again = again]
  BY DEF Ends
<1> HIDE DEF waived, whole, unseen, again
<1>3. told' \in Excuses
  BY <1>1, <1>2 DEF Shape, Excuses
<1> QED BY <1>3, Empty DEF Ends

LEMMA GivenUpShape ==
  ASSUME Shape
  PROVE  GivenUp \in Excuses
BY LostShape DEF Shape, GivenUp, Excuses

LEMMA DeleteShape ==
  ASSUME Shape, NEW ok \in BOOLEAN, Delete(ok)
  PROVE  record' \in Records
BY Empty DEF Shape, Delete

LEMMA DiscardShape ==
  ASSUME Shape, NEW excused \in BOOLEAN, Discard(excused)
  PROVE  Shape'
<1>1. PICK ok \in BOOLEAN :
        /\ Delete(ok)
        /\ told' \in {GivenUp, [told EXCEPT !.unseen = Unasked], told}
        /\ UNCHANGED <<handoff, tree, head, carry, run>>
  BY DEF Discard, Works
<1>2. [told EXCEPT !.unseen = Unasked] \in Excuses
  BY LostShape DEF Shape, Excuses
<1>3. told' \in Excuses
  BY <1>1, <1>2, GivenUpShape DEF Shape
<1> QED BY <1>1, <1>3, DeleteShape DEF Shape

LEMMA WaitsShape ==
  ASSUME Shape, NEW pending \in Pendings
  PROVE  Waits(pending) \in Runs /\ Baseline \in Baselines
<1>1. Baseline \in Baselines /\ Baseline \in Guards
  BY DEF Baseline, Shape, Records, Guards, Baselines
<1> QED BY <1>1, Empty DEF Waits, Runs

LEMMA ConfirmShape ==
  ASSUME Shape, NEW text \in Texts, NEW memory \in Runs, NEW vouched \in BOOLEAN,
         Confirm(text, memory, vouched)
  PROVE  Shape'
<1>1. tree["code"] \in Contents
  BY DEF Shape, Files
<1>2. CASE UNCHANGED record
  <2>1. told' = [told EXCEPT !.excused = IF vouched THEN tree["code"] ELSE @,
                             !.whole = TRUE]
        \/ told' = GivenUp
    BY DEF Confirm
  <2>2. told' \in Excuses
    BY <1>1, <2>1, GivenUpShape DEF Shape, Excuses
  <2> QED BY <1>2, <2>2 DEF Confirm, Shape
<1>3. CASE Delete(TRUE) /\ told' = GivenUp /\ UNCHANGED <<handoff, tree, head, carry, run>>
  BY <1>3, DeleteShape, GivenUpShape DEF Shape
<1> QED BY <1>2, <1>3 DEF Confirm

LEMMA TopShape ==
  ASSUME Shape, NEW memory \in Runs, Top(memory)
  PROVE  run' \in Runs
<1> DEFINE prev == IF memory.failed THEN <<>> ELSE <<run.role, run.text>>
<1>1. prev \in {<<>>} \cup ((Roles \cup {"nobody"}) \X MaybeTexts)
  BY DEF Shape, Runs
<1>2. run' = [Idle EXCEPT !.left = memory.left, !.back = memory.back, !.prev = prev]
  BY DEF Top
<1> HIDE DEF prev
<1> QED BY <1>1, <1>2, Empty DEF Runs

LEMMA PrunedShape ==
  ASSUME Shape, NEW left \in Lefts
  PROVE  Pruned(left) \in Lefts
<1> DEFINE files == [f \in Same(left) |-> left.files[f]]
<1>1. DOMAIN left.files \subseteq Files /\ \A f \in DOMAIN left.files : left.files[f] \in Contents
  BY Lists DEF Lefts
<1>2. files \in [Same(left) -> Contents] /\ Same(left) \in SUBSET Files
  BY <1>1 DEF Same
<1>3. files \in Printed
  BY <1>2, Lists
<1> HIDE DEF files
<1>4. [left EXCEPT !.files = files] \in Lefts
  BY <1>3 DEF Lefts
<1> QED BY <1>4, Empty DEF Pruned, Saved, files

LEMMA EditShape ==
  ASSUME Shape, NEW f \in Files, NEW who \in Authors, Edit(f, who)
  PROVE  tree' \in [Files -> Contents]
<1>1. tree[f] \in Seq(Authors) /\ Len(tree[f]) < MaxEdits
  BY DEF Shape, Edit, Contents, Authors
<1>2. Append(tree[f], who) \in Seq(Authors) /\ Len(Append(tree[f], who)) = Len(tree[f]) + 1
  BY <1>1
<1>3. Append(tree[f], who) \in Contents
  BY <1>1, <1>2, Constants DEF Contents, Authors
<1> QED BY <1>3 DEF Shape, Edit

(* What start-up recovery does.                                                *)
LEMMA ShapeAtStartup ==
  ASSUME Shape, KindInv, Startup
  PROVE  Shape'
<1>1. CASE Start \/ NoRecordFound \/ RecordKept
  BY <1>1, GivenUpShape DEF Start, NoRecordFound, RecordKept, Shape
<1>2. CASE RecordInvalid
  BY <1>2, DeleteShape, GivenUpShape DEF RecordInvalid, Shape
<1>3. AgentFiles \in SUBSET Files
  BY DEF AgentFiles, Dirty
<1>4. Prints(AgentFiles) \in Printed
  BY <1>3, PrintsList
<1>5. ASSUME pc = "recovering", record.role \in Roles
      PROVE  record.text \in Texts /\ Interrupted \in Lefts
  <2>1. record.text \in Texts
    BY <1>5 DEF KindInv, RecordFits, Fits, Roles
  <2> QED BY <2>1, <1>4 DEF Interrupted, Lefts, Texts
<1>6. CASE RecoverDispatch
  <2> DEFINE pending == IF OperatorChanged = {} THEN "dispatch" ELSE "pause"
             memory == [Waits(pending) EXCEPT !.left = Interrupted]
             vouched == "code" \in AgentFiles
  <2>1. Interrupted \in Lefts /\ record.text \in Texts
    BY <1>5, <1>6 DEF RecoverDispatch, Roles
  <2>2. pending \in Pendings /\ vouched \in BOOLEAN
    BY DEF Pendings
  <2>3. \/ Discard(TRUE) \/ Discard(FALSE)
        \/ Confirm(record.text, memory, vouched)
    BY <1>6 DEF RecoverDispatch
  <2> HIDE DEF pending, vouched
  <2>4. memory \in Runs
    BY <2>1, <2>2, WaitsShape DEF Runs
  <2> HIDE DEF memory
  <2> QED BY <2>1, <2>2, <2>3, <2>4, DiscardShape, ConfirmShape
<1>7. CASE RecoverHandback
  <2> DEFINE pending == IF OperatorChanged = {} THEN "handback" ELSE "pause"
             waits == Waits(pending)
             memory == [waits EXCEPT !.left = Interrupted, !.text = record.text,
                                     !.pre = record.dirty]
             vouched == "code" \in AgentFiles
  <2>1. Interrupted \in Lefts /\ record.text \in MaybeTexts /\ record.dirty \in Printed
    BY <1>5, <1>7 DEF RecoverHandback, Roles, KindInv, RecordFits, Shape, Records
  <2>2. pending \in Pendings /\ vouched \in BOOLEAN
    BY DEF Pendings
  <2>3. \/ Discard(TRUE) \/ Discard(FALSE)
        \/ Confirm(handoff, memory, vouched)
    BY <1>7 DEF RecoverHandback
  <2> HIDE DEF pending, vouched
  <2>4. memory \in Runs
    <3>1. waits \in Runs
      BY <2>2, WaitsShape
    <3> HIDE DEF waits
    <3> QED BY <2>1, <3>1 DEF Runs
  <2>5. handoff \in Texts
    BY DEF Shape
  <2> HIDE DEF memory
  <2> QED BY <2>2, <2>3, <2>4, <2>5, DiscardShape, ConfirmShape
<1>8. CASE ReconcilePlannerGit
  <2>1. \/ Discard(TRUE)
        \/ head' \in {head, record.base}
           /\ UNCHANGED <<handoff, tree, record, carry, run, told>>
    BY <1>8 DEF ReconcilePlannerGit, StopAndKeep
  <2> QED BY <2>1, DiscardShape DEF Shape, Records
<1>9. CASE RecoverPlanner \/ RecoverAuditor \/ RecoverFinalizer
  <2> DEFINE pending == IF LedgerCommitted THEN "finalizer" ELSE "none"
  <2>1. record.role \in Roles /\ pc = "recovering"
    BY <1>9 DEF RecoverPlanner, RecoverAuditor, RecoverFinalizer, Roles
  <2>2. \/ Discard(TRUE) \/ Discard(FALSE)
        \/ Confirm(record.text, Waits("planner"), FALSE)
        \/ Confirm(record.text, Waits("auditor"), FALSE)
        \/ Confirm(record.text, Waits(pending), FALSE)
        \/ StopAndKeep
    BY <1>9 DEF RecoverPlanner, RecoverAuditor, RecoverFinalizer
  <2>3. pending \in Pendings /\ "planner" \in Pendings /\ "auditor" \in Pendings
    BY DEF Pendings
  <2> HIDE DEF pending
  <2>4. CASE StopAndKeep
    BY <2>4 DEF StopAndKeep, Shape
  <2> QED BY <2>1, <2>2, <2>3, <2>4, <1>5, WaitsShape, DiscardShape, ConfirmShape
<1>10. CASE Adopt
  <2>1. PICK ok \in BOOLEAN : Delete(ok) /\ (IF ok THEN UNCHANGED <<run, told>> ELSE Ends)
    BY <1>10 DEF Adopt, Works
  <2>2. run' \in Runs /\ told' \in Excuses
    BY <2>1, EndsShape DEF Shape
  <2>3. carry' \in {carry, Saved(run.left)}
    BY <1>10 DEF Adopt
  <2>4. carry' \in Lefts
    BY <2>3, Empty DEF Saved, Shape, Runs
  <2> QED BY <1>10, <2>1, <2>2, <2>4, DeleteShape DEF Adopt, Shape
<1>11. CASE RestoreLeftovers
  <2> DEFINE left == Pruned(carry)
  <2>1. left \in Lefts
    BY PrunedShape DEF Shape
  <2>2. PICK yes \in BOOLEAN :
          /\ carry' \in {carry, NoCarry}
          /\ run' = [run EXCEPT !.left = IF yes THEN left ELSE NoCarry]
          /\ told' = [told EXCEPT !.excused =
               IF yes /\ "code" \in DOMAIN left.files THEN tree["code"] ELSE @]
    BY <1>11 DEF RestoreLeftovers, Ask
  <2> HIDE DEF left
  <2>3. tree["code"] \in Contents
    BY DEF Shape, Files
  <2>4. told' \in Excuses
    BY <2>2, <2>3 DEF Shape, Excuses
  <2>5. run' \in Runs
    BY <2>1, <2>2, Empty DEF Shape, Runs
  <2> QED BY <1>11, <2>2, <2>4, <2>5, Empty DEF RestoreLeftovers, Shape
<1>12. CASE OfferUnrecorded
  <2>1. Offered \in SUBSET Files
    BY DEF Offered, Dirty
  <2>2. [story |-> handoff.story, files |-> Prints(Offered)] \in Lefts
    BY <2>1, PrintsList DEF Lefts, Shape, Texts
  <2>3. tree["code"] \in Contents
    BY DEF Shape, Files
  <2>4. told' \in Excuses
    BY <1>12, <2>3 DEF OfferUnrecorded, Shape, Excuses
  <2>5. run' \in Runs
    BY <1>12, <2>2 DEF OfferUnrecorded, Shape, Runs
  <2> QED BY <1>12, <2>4, <2>5 DEF OfferUnrecorded, Shape
<1> QED BY <1>1, <1>2, <1>6, <1>7, <1>8, <1>9, <1>10, <1>11, <1>12 DEF Startup, Recover

(* What a dispatch leaves, part by part.                                       *)
PreOf(role, seen) ==
  IF role = "backend" /\ seen THEN Prints(Dirty \ Carried(handoff.story)) ELSE Nothing
BaselineOf == IF run.held # NotHeld THEN run.held ELSE tree["guard"]
LeftOf(role) ==
  IF role = "backend" /\ run.left.story # handoff.story THEN NoCarry ELSE run.left
WaivedOf(role, wrote) ==
  \/ told.waived /\ role \in {"auditor", "finalizer"}
  \/ ~wrote /\ record.role # "nobody"
ClosedOf(role) == told.closed /\ role # "finalizer"
AgainOf(role) == role = "planner" /\ handoff.kind = "approved"
UnseenOf == IF run.held = NotHeld THEN "no" ELSE told.unseen

DispatchedBy(role, seen, wrote) ==
  /\ seen \/ role = "backend"
  /\ seen \/ wrote
  /\ carry' \in {carry, NoCarry}
  /\ run' = [Idle EXCEPT !.role = role, !.text = handoff, !.pre = PreOf(role, seen),
                !.base = head, !.guard = BaselineOf, !.left = LeftOf(role), !.written = wrote]
  /\ record' = IF wrote THEN DispatchRecord(role, PreOf(role, seen), BaselineOf) ELSE record
  /\ told' = [told EXCEPT !.excused = IF seen THEN @ ELSE tree["code"],
                 !.waived = WaivedOf(role, wrote), !.closed = ClosedOf(role),
                 !.again = AgainOf(role), !.unseen = UnseenOf]

LEMMA Dispatched ==
  ASSUME NEW role \in Roles, Dispatch(role)
  PROVE  \E seen \in BOOLEAN, wrote \in BOOLEAN : DispatchedBy(role, seen, wrote)
<1>1. PICK seen \in Works, wrote \in Works :
        /\ seen \/ role = "backend"
        /\ seen \/ wrote
        /\ LET gated == role = "backend"
               pre == IF gated /\ seen THEN Prints(Dirty \ Carried(handoff.story)) ELSE Nothing
               baseline == IF run.held # NotHeld THEN run.held ELSE tree["guard"]
               left == IF gated /\ run.left.story # handoff.story THEN NoCarry ELSE run.left
           IN /\ carry' = IF left = run.left THEN carry ELSE NoCarry
              /\ run' = [Idle EXCEPT !.role = role, !.text = handoff, !.pre = pre,
                    !.base = head, !.guard = baseline, !.left = left, !.written = wrote]
              /\ record' = IF wrote THEN DispatchRecord(role, pre, baseline) ELSE record
              /\ told' = [told EXCEPT
                    !.excused = IF seen THEN @ ELSE tree["code"],
                    !.waived = \/ @ /\ role \in {"auditor", "finalizer"}
                               \/ ~wrote /\ record.role # "nobody",
                    !.closed = @ /\ role # "finalizer",
                    !.again = role = "planner" /\ handoff.kind = "approved",
                    !.unseen = IF run.held = NotHeld THEN "no" ELSE @]
        /\ spent' = [events |-> spent.events + (IF seen /\ wrote THEN 0 ELSE 1),
                     dispatches |-> spent.dispatches + 1]
  BY Zenon DEF Dispatch
<1>2. seen \in BOOLEAN /\ wrote \in BOOLEAN
  BY DEF Works
<1> HIDE DEF Dispatch
<1>3. carry' \in {carry, NoCarry}
  BY <1>1
<1>4. run' = [Idle EXCEPT !.role = role, !.text = handoff, !.pre = PreOf(role, seen),
                !.base = head, !.guard = BaselineOf, !.left = LeftOf(role), !.written = wrote]
  BY <1>1 DEF PreOf, BaselineOf, LeftOf
<1>5. record' = IF wrote THEN DispatchRecord(role, PreOf(role, seen), BaselineOf) ELSE record
  BY <1>1 DEF PreOf, BaselineOf
<1>6. told' = [told EXCEPT !.excused = IF seen THEN @ ELSE tree["code"],
                 !.waived = WaivedOf(role, wrote), !.closed = ClosedOf(role),
                 !.again = AgainOf(role), !.unseen = UnseenOf]
  BY <1>1, Zenon DEF WaivedOf, ClosedOf, AgainOf, UnseenOf
<1>7. DispatchedBy(role, seen, wrote)
  BY <1>1, <1>3, <1>4, <1>5, <1>6, Zenon DEF DispatchedBy
<1> QED BY <1>2, <1>7

(* What the loop top and a dispatch do.                                        *)
LEMMA ShapeAtTop ==
  ASSUME Shape, KindInv, LoopTop
  PROVE  Shape'
<1>1. CASE ClearHandback
  <2>1. PICK ok \in BOOLEAN : /\ Delete(ok)
                              /\ \/ Ends
                                 \/ run' = [run EXCEPT !.back = FALSE] /\ UNCHANGED told
    BY <1>1 DEF ClearHandback, Works
  <2>2. run' \in Runs /\ told' \in Excuses
    BY <2>1, EndsShape DEF Shape, Runs
  <2> QED BY <1>1, <2>1, <2>2, DeleteShape DEF ClearHandback, Shape
<1>2. CASE StopAtTop
  BY <1>2, EndsShape DEF StopAtTop, Shape
<1>3. CASE PauseForPerson
  BY <1>3 DEF PauseForPerson, Shape
<1>4. CASE Resume
  BY <1>4 DEF Resume, Shape, Runs, Excuses, Pendings
<1>5. CASE ResumeHandback
  BY <1>5, Empty DEF ResumeHandback, Shape, Runs, Pendings, Roles, Guards, KindInv, MemoryFits,
                    Waiting
<1>6. ASSUME NEW role \in Roles, Dispatch(role)
      PROVE  Shape'
  <2>0. PICK seen \in BOOLEAN, wrote \in BOOLEAN : DispatchedBy(role, seen, wrote)
    BY <1>6, Dispatched
  <2>1. /\ carry' \in {carry, NoCarry}
        /\ run' = [Idle EXCEPT !.role = role, !.text = handoff, !.pre = PreOf(role, seen),
              !.base = head, !.guard = BaselineOf, !.left = LeftOf(role), !.written = wrote]
        /\ record' = IF wrote THEN DispatchRecord(role, PreOf(role, seen), BaselineOf)
                     ELSE record
        /\ told' = [told EXCEPT !.excused = IF seen THEN @ ELSE tree["code"],
              !.waived = WaivedOf(role, wrote), !.closed = ClosedOf(role),
              !.again = AgainOf(role), !.unseen = UnseenOf]
    BY <2>0, Zenon DEF DispatchedBy
  <2>2. PreOf(role, seen) \in Printed
    <3>1. Dirty \ Carried(handoff.story) \in SUBSET Files
      BY DEF Dirty
    <3> QED BY <3>1, PrintsList, Lists DEF PreOf
  <2>3. tree["guard"] \in Baselines /\ tree["code"] \in Contents
    BY DEF Shape, Files, Baselines
  <2>4. BaselineOf \in Baselines
    BY <2>3 DEF Shape, Runs, BaselineOf, Guards
  <2>5. LeftOf(role) \in Lefts
    BY Empty DEF Shape, Runs, LeftOf
  <2>6. /\ WaivedOf(role, wrote) \in BOOLEAN /\ ClosedOf(role) \in BOOLEAN
        /\ AgainOf(role) \in BOOLEAN /\ UnseenOf \in Sights
    BY DEF WaivedOf, ClosedOf, AgainOf, UnseenOf, Shape, Excuses, Sights
  <2>7. told' \in Excuses
    BY <2>1, <2>3, <2>6 DEF Shape, Excuses
  <2>8. run' \in Runs
    BY <2>1, <2>2, <2>4, <2>5, Empty DEF Shape, Runs, MaybeTexts
  <2>9. DispatchRecord(role, PreOf(role, seen), BaselineOf) \in Records
    BY <2>2, <2>4, Empty DEF DispatchRecord, Shape, Records, MaybeTexts
  <2> QED BY <1>6, <2>1, <2>7, <2>8, <2>9, Empty DEF Dispatch, Shape
<1> QED BY <1>1, <1>2, <1>3, <1>4, <1>5, <1>6 DEF LoopTop

(* What a role does, what follows when it returned, and what comes from       *)
(* outside.                                                                    *)
LEMMA RunningShape ==
  ASSUME Shape, KindInv, pc \in AtWork
  PROVE  run.role \in Roles /\ run.text \in Texts /\ run.text.story \in Stories
         /\ run.text.story \in Authors /\ run.text.story \in Marks
BY DEF KindInv, WorkFits, Fits, Texts, Authors, Marks

LEMMA ShapeAtWork ==
  ASSUME Shape, KindInv, RoleRuns
  PROVE  Shape'
<1>1. pc = "running"
  BY DEF RoleRuns, RoleEdits, RoleCommits, RoleWrites, RoleReturns
<1>2. run.role \in Roles /\ run.text.story \in Stories /\ run.text.story \in Authors
  BY <1>1, RunningShape DEF AtWork
<1>3. CASE RoleEdits
  <2>1. PICK f \in Files : Edit(f, run.text.story)
    BY <1>3 DEF RoleEdits, Files
  <2>2. told' \in Excuses
    <3> DEFINE unseen == IF tree'["guard"] # run.guard THEN "yes" ELSE "no"
    <3>1. unseen \in Sights
      BY DEF Sights
    <3>2. told' = told \/ told' = [told EXCEPT !.unseen = unseen]
      BY <1>3 DEF RoleEdits
    <3> HIDE DEF unseen
    <3> QED BY <3>1, <3>2 DEF Shape, Excuses
  <2> QED BY <1>2, <1>3, <2>1, <2>2, EditShape DEF RoleEdits, Shape
<1>4. CASE RoleCommits
  <2>1. head' \in Seq(Marks)
    BY <1>4 DEF RoleCommits, Shape, Marks
  <2>2. tree' \in [Files -> Contents]
    BY <1>4, Empty DEF RoleCommits, Shape
  <2>3. told' \in Excuses
    BY <1>4 DEF RoleCommits, Shape, Excuses
  <2> QED BY <1>4, <2>1, <2>2, <2>3 DEF RoleCommits, Shape
<1>5. CASE RoleWrites
  <2> DEFINE closed == told.closed /\ ~(run.role = "auditor" /\ handoff'.kind = "approved")
  <2>1. closed \in BOOLEAN
    OBVIOUS
  <2>2. told' = [told EXCEPT !.closed = closed, !.whole = FALSE]
    BY <1>5 DEF RoleWrites
  <2> HIDE DEF closed
  <2>3. told' \in Excuses
    BY <2>1, <2>2 DEF Shape, Excuses
  <2>4. handoff' \in Texts
    <3>1. handoff.story \in Stories
      BY DEF Shape, Texts
    <3>2. Outcomes[run.role] \subseteq Kinds
      BY <1>2 DEF Outcomes, Roles, Kinds
    <3>3. \E k \in Kinds, s \in Stories : handoff' = Text(k, s)
      BY <1>2, <1>5, <3>1, <3>2 DEF RoleWrites, Kinds
    <3> QED BY <3>3 DEF Text, Texts
  <2> QED BY <1>5, <2>3, <2>4 DEF RoleWrites, Shape
<1>6. CASE RoleReturns
  <2>1. PICK ok \in BOOLEAN : run' = [run EXCEPT !.failed = ~ok]
    BY <1>6 DEF RoleReturns, Works
  <2>2. run' \in Runs
    <3> DEFINE failed == ~ok
    <3>1. failed \in BOOLEAN
      OBVIOUS
    <3> HIDE DEF failed
    <3>2. [run EXCEPT !.failed = failed] \in Runs
      BY <3>1 DEF Shape, Runs
    <3> QED BY <2>1, <3>2 DEF failed
  <2> QED BY <1>6, <2>2 DEF RoleReturns, Shape, Excuses
<1> QED BY <1>3, <1>4, <1>5, <1>6 DEF RoleRuns

LEMMA EscalateShape ==
  ASSUME Shape, Escalate, run.text.story \in Stories
  PROVE  handoff' \in Texts /\ told' \in Excuses
BY DEF Escalate, Shape, Excuses, Sights, Text, Texts, Kinds

LEMMA StampShape ==
  ASSUME Shape, NEW k \in Kinds
  PROVE  [handoff EXCEPT !.kind = k] \in Texts
BY DEF Shape, Texts

LEMMA ShapeAfter ==
  ASSUME Shape, KindInv, Aftermath
  PROVE  Shape'
<1>0. pc \in AtWork
  BY DEF Aftermath, OtherReturned, RecordHandback, CheckHandback, CommitWork,
         StampAndRefresh, Gate, AtWork
<1>1. run.role \in Roles /\ run.text.story \in Stories /\ run.text.story \in Marks
  BY <1>0, RunningShape
<1>2. run \in Runs
  BY DEF Shape
<1>3. CASE OtherReturned
  <2>1. record' \in Records
    BY <1>3, DeleteShape DEF OtherReturned, Works, Shape
  <2>2. /\ UNCHANGED <<tree, carry>>
        /\ \/ Ends /\ UNCHANGED <<handoff, head>>
           \/ /\ Top(run)
              /\ head' \in {run.base, head}
              /\ \/ Escalate
                 \/ told' = [told EXCEPT !.again = @ \/ run.failed] /\ UNCHANGED handoff
    BY <1>3 DEF OtherReturned
  <2> DEFINE again == told.again \/ run.failed
  <2>3. again \in BOOLEAN
    OBVIOUS
  <2>4. /\ UNCHANGED <<tree, carry>>
        /\ \/ Ends /\ UNCHANGED <<handoff, head>>
           \/ /\ Top(run)
              /\ head' \in {run.base, head}
              /\ \/ Escalate
                 \/ told' = [told EXCEPT !.again = again] /\ UNCHANGED handoff
    BY <2>2
  <2> HIDE DEF again
  <2>5. [told EXCEPT !.again = again] \in Excuses
    BY <2>3 DEF Shape, Excuses
  <2>6. told' \in Excuses /\ handoff' \in Texts
    BY <1>1, <2>4, <2>5, EndsShape, EscalateShape DEF Shape
  <2>7. run' \in Runs
    BY <1>2, <2>4, EndsShape, TopShape
  <2>8. head' \in Seq(Marks)
    BY <2>4 DEF Shape, Runs
  <2> QED BY <2>1, <2>4, <2>6, <2>7, <2>8 DEF Shape
<1>4. CASE RecordHandback
  <2>1. Handback \in Records
    BY DEF Handback, Shape, Records, MaybeTexts
  <2>2. record' \in Records
    BY <1>4, <2>1, DeleteShape DEF RecordHandback, Works, Shape
  <2>3. \/ UNCHANGED <<run, told>>
        \/ UNCHANGED told /\ \E wrote \in BOOLEAN : run' = [run EXCEPT !.back = wrote]
        \/ Ends
    BY <1>4 DEF RecordHandback, Works
  <2>4. run' \in Runs /\ told' \in Excuses
    BY <2>3, EndsShape DEF Shape, Runs
  <2> QED BY <1>4, <2>2, <2>4 DEF RecordHandback, Shape
<1>5. CASE CheckHandback
  <2>1. PICK listed \in Works :
          LET left == Saved([story |-> run.text.story,
                             files |-> Prints(IF listed THEN Dirty \ DOMAIN run.pre ELSE {})])
              memory == [run EXCEPT !.left = left]
          IN /\ carry' = left
             /\ \/ Escalate /\ Top(memory)
                \/ run' = memory /\ UNCHANGED <<handoff, told>>
                \/ /\ Top(memory)
                   /\ told' = [told EXCEPT !.waived = @ \/ run.failed]
                   /\ UNCHANGED handoff
    BY <1>5 DEF CheckHandback
  <2> DEFINE files == IF listed THEN Dirty \ DOMAIN run.pre ELSE {}
             left == Saved([story |-> run.text.story, files |-> Prints(files)])
             memory == [run EXCEPT !.left = left]
             waived == told.waived \/ run.failed
  <2>2. files \in SUBSET Files
    BY DEF Dirty
  <2>3. left \in Lefts
    <3> HIDE DEF files
    <3>1. Prints(files) \in Printed
      BY <2>2, PrintsList
    <3> QED BY <1>1, <3>1, Empty DEF Saved, Lefts
  <2>4. waived \in BOOLEAN
    OBVIOUS
  <2>5. /\ carry' = left
        /\ \/ Escalate /\ Top(memory)
           \/ run' = memory /\ UNCHANGED <<handoff, told>>
           \/ /\ Top(memory)
              /\ told' = [told EXCEPT !.waived = waived]
              /\ UNCHANGED handoff
    BY <2>1
  <2> HIDE DEF left, waived
  <2>6. memory \in Runs
    BY <2>3 DEF Shape, Runs
  <2> HIDE DEF memory
  <2>7. [told EXCEPT !.waived = waived] \in Excuses
    BY <2>4 DEF Shape, Excuses
  <2>8. run' \in Runs
    BY <2>5, <2>6, TopShape
  <2>9. handoff' \in Texts /\ told' \in Excuses
    BY <1>1, <2>5, <2>7, EscalateShape DEF Shape
  <2> QED BY <1>5, <2>3, <2>5, <2>8, <2>9 DEF CheckHandback, Shape
<1>6. CASE CommitWork
  <2>1. handoff' \in Texts
    BY <1>6, StampShape DEF CommitWork, Shape, Kinds
  <2>2. tree' \in [Files -> Contents]
    BY <1>6, Empty DEF CommitWork, Shape
  <2>3. head' \in Seq(Marks)
    <3>1. head' = head \/ head' = Append(head, run.text.story)
      BY <1>6 DEF CommitWork
    <3>2. Append(head, run.text.story) \in Seq(Marks)
      BY <1>1 DEF Shape
    <3> QED BY <3>1, <3>2 DEF Shape
  <2>4. told' \in Excuses
    <3>1. told' = told \/ told' = [told EXCEPT !.excused = <<>>]
      BY <1>6 DEF CommitWork
    <3>2. [told EXCEPT !.excused = <<>>] \in Excuses
      BY Empty DEF Shape, Excuses
    <3> QED BY <3>1, <3>2 DEF Shape
  <2>5. UNCHANGED <<record, carry, run>>
    BY <1>6 DEF CommitWork
  <2> QED BY <2>1, <2>2, <2>3, <2>4, <2>5 DEF Shape
<1>7. CASE StampAndRefresh
  <2> DEFINE left == Pruned(run.left)
  <2>1. left \in Lefts
    BY PrunedShape DEF Shape, Runs
  <2>2. handoff' \in Texts
    BY <1>7, StampShape DEF StampAndRefresh, Stamped, Shape, Kinds
  <2>3. /\ carry' = left
        /\ UNCHANGED <<tree, head>>
        /\ \/ Ends
           \/ UNCHANGED told
              /\ \E back \in BOOLEAN : run' = [run EXCEPT !.left = left, !.back = back]
        /\ record' \in {record, NoRecord, [record EXCEPT !.back = handoff', !.backHead = head]}
    <3> HIDE DEF left
    <3>1. PICK wrote \in Works, gone \in Works :
            /\ carry' = Pruned(run.left)
            /\ record' = CASE ~run.back -> record
                           [] run.back /\ wrote ->
                                [record EXCEPT !.back = handoff', !.backHead = head]
                           [] OTHER -> IF gone THEN NoRecord ELSE record
            /\ IF wrote \/ gone
               THEN /\ pc' = "refreshed"
                    /\ run' = [run EXCEPT !.left = Pruned(run.left), !.back = run.back /\ wrote]
                    /\ UNCHANGED told
               ELSE Ends
      BY <1>7 DEF StampAndRefresh
    <3>2. record' \in {record, NoRecord, [record EXCEPT !.back = handoff', !.backHead = head]}
      BY <3>1
    <3>3. (run.back /\ wrote) \in BOOLEAN
      OBVIOUS
    <3>4. \/ Ends
          \/ UNCHANGED told
             /\ \E back \in BOOLEAN : run' = [run EXCEPT !.left = left, !.back = back]
      BY <3>1, <3>3, Zenon DEF left
    <3> QED BY <1>7, <3>1, <3>2, <3>4 DEF StampAndRefresh, left
  <2> HIDE DEF left
  <2>4. run' \in Runs /\ told' \in Excuses
    BY <2>1, <2>3, EndsShape DEF Shape, Runs
  <2>5. record' \in Records
    BY <2>2, <2>3, Empty DEF Shape, Records, MaybeTexts
  <2> QED BY <2>1, <2>2, <2>3, <2>4, <2>5 DEF Shape
<1>8. CASE Gate
  <2>1. handoff' \in Texts
    BY <1>8, StampShape DEF Gate, Kinds
  <2> QED BY <1>2, <1>8, <2>1, TopShape DEF Gate, Shape
<1> QED BY <1>3, <1>4, <1>5, <1>6, <1>7, <1>8 DEF Aftermath

LEMMA ShapeOutside ==
  ASSUME Shape, Outside
  PROVE  Shape'
<1>1. CASE Crash
  BY <1>1, EndsShape DEF Crash, Shape
<1>2. CASE PersonEdits
  <2>1. tree' \in [Files -> Contents]
    <3>1. ASSUME NEW f \in Files, tree' = [tree EXCEPT ![f] = <<>>]
          PROVE  tree' \in [Files -> Contents]
      BY <3>1, Empty DEF Shape
    <3>2. ASSUME NEW f \in {"code", "guard"}, Edit(f, "op")
          PROVE  tree' \in [Files -> Contents]
      BY <3>2, EditShape DEF Files, Authors
    <3> QED BY <1>2, <3>1, <3>2 DEF PersonEdits, Dirty
  <2>2. told' \in Excuses
    <3>1. PICK f \in Files : told' = [told EXCEPT !.unseen = IF f = "guard" THEN "no" ELSE @]
      BY <1>2, Zenon DEF PersonEdits, Dirty, Files
    <3> DEFINE unseen == IF f = "guard" THEN "no" ELSE told.unseen
    <3>2. unseen \in Sights
      BY DEF Sights, Shape, Excuses
    <3>3. told' = [told EXCEPT !.unseen = unseen]
      BY <3>1
    <3> HIDE DEF unseen
    <3> QED BY <3>2, <3>3 DEF Shape, Excuses
  <2> QED BY <1>2, <2>1, <2>2 DEF PersonEdits, Person, Shape
<1>3. CASE PersonCommits
  <2>1. tree' \in [Files -> Contents]
    BY <1>3, Empty DEF PersonCommits, Shape
  <2>2. head' \in Seq(Marks)
    <3>1. ASSUME head # <<>>
          PROVE  Front(head) \in Seq(Marks)
      BY <3>1 DEF Front, Shape
    <3>2. \/ head' = Append(head, "op")
          \/ head # <<>> /\ head' = Append(Front(head), "op")
      BY <1>3 DEF PersonCommits
    <3>3. head \in Seq(Marks) /\ "op" \in Marks
      BY DEF Shape, Marks
    <3>4. ASSUME NEW s \in Seq(Marks)
          PROVE  Append(s, "op") \in Seq(Marks)
      BY <3>3
    <3> QED BY <3>1, <3>2, <3>3, <3>4
  <2>3. told' \in Excuses
    BY <1>3 DEF PersonCommits, Shape, Excuses
  <2> QED BY <1>3, <2>1, <2>2, <2>3 DEF PersonCommits, Person, Shape
<1>4. CASE PersonWrites
  <2>1. handoff' \in Texts
    BY <1>4 DEF PersonWrites, Text, Texts, Kinds
  <2>2. told' \in Excuses
    BY <1>4 DEF PersonWrites, Shape, Excuses
  <2> QED BY <1>4, <2>1, <2>2 DEF PersonWrites, Person, Shape
<1> QED BY <1>1, <1>2, <1>3, <1>4 DEF Outside

(* Every step keeps the shape.                                                 *)
LEMMA ShapeStep ==
  ASSUME Shape, KindInv, [Next]_vars
  PROVE  Shape'
<1>1. CASE UNCHANGED vars
  BY <1>1 DEF vars, Shape
<1> QED BY <1>1, ShapeAtStartup, ShapeAtTop, ShapeAtWork, ShapeAfter, ShapeOutside DEF Next

-----------------------------------------------------------------------------
(* The record, the work and the memory keep to the texts they fit.            *)

(* A record that stays or is deleted, a run that ends.                         *)
LEMMA RecordKeeps ==
  ASSUME RecordFits, record' = record \/ record' = NoRecord
  PROVE  RecordFits'
BY DEF RecordFits, NoRecord, Fits

LEMMA DeleteKeeps ==
  ASSUME RecordFits, NEW ok \in BOOLEAN, Delete(ok)
  PROVE  RecordFits'
BY RecordKeeps DEF Delete

LEMMA EndsKeeps ==
  ASSUME Ends
  PROVE  WorkFits' /\ MemoryFits'
BY DEF Ends, WorkFits, MemoryFits, AtWork, Waiting

(* Idle memory fits wherever nothing is pending.                               *)
LEMMA IdleFields ==
  /\ Idle.prev = <<>> /\ Idle.pending = "none" /\ Idle.held = NotHeld
  /\ Idle.left = NoCarry /\ ~Idle.back /\ Idle.role = "nobody" /\ Idle.written = FALSE
  /\ Idle.text = Nothing /\ Idle.pre = Nothing
BY DEF Idle

LEMMA DiscardKeeps ==
  ASSUME Shape, KindInv, pc = "recovering", NEW excused \in BOOLEAN, Discard(excused)
  PROVE  KindInv'
<1>1. /\ record' = record \/ record' = NoRecord
      /\ pc' \in {"restoring", "down"} /\ run' = Idle
  BY DEF Discard, Delete, KindInv, MemoryFits
<1>2. RecordFits'
  BY <1>1, RecordKeeps DEF KindInv
<1>3. WorkFits' /\ MemoryFits'
  BY <1>1, IdleFields DEF WorkFits, MemoryFits, AtWork, Waiting
<1> QED BY <1>2, <1>3 DEF KindInv

LEMMA WaitsFields ==
  ASSUME Shape, NEW pending \in Pendings
  PROVE  /\ Waits(pending) \in Runs
         /\ Waits(pending).prev = <<>> /\ Waits(pending).pending = pending
         /\ Waits(pending).held = Baseline /\ Baseline # NotHeld
         /\ ~Waits(pending).back
<1>1. Idle \in Runs
  BY Empty
<1>2. Baseline # NotHeld
  BY WaitsShape, NoContent DEF Baselines
<1>3. /\ Waits(pending).prev = Idle.prev /\ Waits(pending).pending = pending
      /\ Waits(pending).held = Baseline /\ Waits(pending).back = Idle.back
  <2> HIDE DEF Idle
  <2> QED BY <1>1 DEF Waits, Runs
<1> QED BY <1>2, <1>3, WaitsShape, IdleFields

LEMMA ConfirmKeeps ==
  ASSUME Shape, KindInv, pc = "recovering", NEW text \in Texts, NEW memory \in Runs,
         NEW vouched \in BOOLEAN, Confirm(text, memory, vouched),
         memory.prev = <<>>,
         memory.pending = "handback" => Fits("backend", memory.text) /\ memory.held # NotHeld,
         memory.pending = "dispatch" => Fits("backend", text),
         memory.pending \in {"auditor", "planner", "finalizer"} => Fits(memory.pending, text)
  PROVE  KindInv'
<1>1. \/ handoff' = text /\ pc' = "adopting" /\ run' = memory /\ record' = record
      \/ pc' = "restoring" /\ run' = Idle /\ Delete(TRUE)
  BY DEF Confirm, KindInv, MemoryFits
<1>2. CASE handoff' = text /\ pc' = "adopting" /\ run' = memory /\ record' = record
  <2>1. RecordFits'
    BY <1>2, RecordKeeps DEF KindInv
  <2>2. WorkFits' /\ MemoryFits'
    BY <1>2 DEF WorkFits, MemoryFits, AtWork, Waiting
  <2> QED BY <2>1, <2>2 DEF KindInv
<1>3. CASE pc' = "restoring" /\ run' = Idle /\ Delete(TRUE)
  <2>1. RecordFits'
    BY <1>3, DeleteKeeps DEF KindInv
  <2>2. WorkFits' /\ MemoryFits'
    BY <1>3, IdleFields DEF WorkFits, MemoryFits, AtWork, Waiting
  <2> QED BY <2>1, <2>2 DEF KindInv
<1> QED BY <1>1, <1>2, <1>3

LEMMA KindAtStartup ==
  ASSUME Shape, KindInv, Startup
  PROVE  KindInv'
<1> USE DEF KindInv
<1>1. CASE Start \/ NoRecordFound \/ RecordKept \/ RecordInvalid
  <2>1. /\ record' = record \/ record' = NoRecord
        /\ pc' \in {"recovering", "unrecorded", "restoring"} /\ run' = Idle
    BY <1>1 DEF Start, NoRecordFound, RecordKept, RecordInvalid, Delete, MemoryFits
  <2>2. WorkFits' /\ MemoryFits'
    BY <2>1, IdleFields DEF WorkFits, MemoryFits, AtWork, Waiting
  <2> QED BY <2>1, <2>2, RecordKeeps
<1>2. ASSUME pc = "recovering", record.role \in Roles
      PROVE  /\ Fits(record.role, record.text) /\ record.text \in Texts
             /\ Interrupted \in Lefts
  <2>1. Fits(record.role, record.text) /\ record.text \in Texts
    BY <1>2 DEF RecordFits, Fits, Roles
  <2>2. Prints(AgentFiles) \in Printed
    BY PrintsList DEF AgentFiles, Dirty
  <2> QED BY <2>1, <2>2 DEF Interrupted, Lefts, Texts
<1>3. CASE RecoverDispatch
  <2> DEFINE pending == IF OperatorChanged = {} THEN "dispatch" ELSE "pause"
             waits == Waits(pending)
             memory == [waits EXCEPT !.left = Interrupted]
             vouched == "code" \in AgentFiles
  <2>1. /\ pc = "recovering" /\ record.role = "backend"
        /\ \/ Discard(TRUE) \/ Discard(FALSE)
           \/ Confirm(record.text, memory, vouched)
    BY <1>3 DEF RecoverDispatch
  <2>2. Interrupted \in Lefts /\ record.text \in Texts /\ Fits("backend", record.text)
    BY <1>2, <2>1 DEF Roles
  <2>3. pending \in {"dispatch", "pause"} /\ pending \in Pendings /\ vouched \in BOOLEAN
    BY DEF Pendings
  <2> HIDE DEF pending, vouched
  <2>4. waits \in Runs /\ waits.prev = <<>> /\ waits.pending = pending
    BY <2>3, WaitsFields
  <2> HIDE DEF waits
  <2>5. memory \in Runs /\ memory.prev = <<>> /\ memory.pending = pending
    BY <2>2, <2>4 DEF Runs
  <2> HIDE DEF memory
  <2> QED BY <2>1, <2>2, <2>3, <2>5, DiscardKeeps, ConfirmKeeps
<1>4. CASE RecoverHandback
  <2> DEFINE pending == IF OperatorChanged = {} THEN "handback" ELSE "pause"
             waits == Waits(pending)
             memory == [waits EXCEPT !.left = Interrupted, !.text = record.text,
                                     !.pre = record.dirty]
             vouched == "code" \in AgentFiles
  <2>1. /\ pc = "recovering" /\ record.phase = "handback"
        /\ \/ Discard(TRUE) \/ Discard(FALSE)
           \/ Confirm(handoff, memory, vouched)
    BY <1>4 DEF RecoverHandback
  <2>2. record.role = "backend"
    BY <2>1 DEF RecordFits
  <2>3. /\ Interrupted \in Lefts /\ record.text \in MaybeTexts /\ record.dirty \in Printed
        /\ Fits("backend", record.text)
    BY <1>2, <2>1, <2>2 DEF Roles, Shape, Records
  <2>4. pending \in {"handback", "pause"} /\ pending \in Pendings /\ vouched \in BOOLEAN
    BY DEF Pendings
  <2> HIDE DEF pending, vouched
  <2>5. waits \in Runs /\ waits.prev = <<>> /\ waits.pending = pending /\ waits.held # NotHeld
    BY <2>4, WaitsFields
  <2> HIDE DEF waits
  <2>6. /\ memory \in Runs /\ memory.prev = <<>> /\ memory.pending = pending
        /\ memory.text = record.text /\ memory.held # NotHeld
    BY <2>3, <2>5 DEF Runs
  <2>7. handoff \in Texts
    BY DEF Shape
  <2> HIDE DEF memory
  <2> QED BY <2>1, <2>3, <2>4, <2>6, <2>7, DiscardKeeps, ConfirmKeeps
<1>5. CASE ReconcilePlannerGit
  <2>1. \/ Discard(TRUE) /\ pc = "recovering"
        \/ UNCHANGED <<handoff, record, run>> /\ pc' \in {"recovering", "down"}
           /\ pc = "recovering"
    BY <1>5 DEF ReconcilePlannerGit, StopAndKeep
  <2> QED BY <2>1, DiscardKeeps, RecordKeeps DEF WorkFits, MemoryFits, AtWork, Waiting
<1>6. CASE RecoverPlanner \/ RecoverAuditor \/ RecoverFinalizer
  <2> DEFINE pending == IF LedgerCommitted THEN "finalizer" ELSE "none"
             Drops == Discard(TRUE) \/ Discard(FALSE) \/ (StopAndKeep /\ record' = record)
  <2>1. pc = "recovering" /\ record.role \in Roles
    BY <1>6 DEF RecoverPlanner, RecoverAuditor, RecoverFinalizer, Roles
  <2>2. \/ Drops
        \/ record.role = "planner" /\ Confirm(record.text, Waits("planner"), FALSE)
        \/ record.role = "auditor" /\ Confirm(record.text, Waits("auditor"), FALSE)
        \/ record.role = "finalizer" /\ Confirm(record.text, Waits(pending), FALSE)
    BY <1>6 DEF RecoverPlanner, RecoverAuditor, RecoverFinalizer, StopAndKeep
  <2>3. /\ pending \in {"finalizer", "none"} /\ pending \in Pendings
        /\ "planner" \in Pendings /\ "auditor" \in Pendings
    BY DEF Pendings
  <2>4. ASSUME Drops PROVE KindInv'
    <3>1. ASSUME StopAndKeep
          PROVE  KindInv'
      BY <2>1, <3>1, RecordKeeps DEF StopAndKeep, WorkFits, MemoryFits, AtWork, Waiting
    <3> QED BY <2>1, <2>4, <3>1, DiscardKeeps
  <2> HIDE DEF pending, Drops
  <2>5. ASSUME NEW p \in Pendings, p \in {"none", record.role},
               Confirm(record.text, Waits(p), FALSE), record.role # "backend"
        PROVE  KindInv'
    <3> DEFINE waits == Waits(p)
    <3>1. waits \in Runs /\ waits.prev = <<>> /\ waits.pending = p
      BY WaitsFields
    <3>2. Fits(record.role, record.text) /\ record.text \in Texts
      BY <1>2, <2>1
    <3>3. Confirm(record.text, waits, FALSE)
      BY <2>5
    <3>4. p # "handback" /\ p # "dispatch"
      BY <2>1, <2>5 DEF Roles
    <3> HIDE DEF waits, KindInv
    <3> QED BY <2>1, <2>5, <3>1, <3>2, <3>3, <3>4, ConfirmKeeps
  <2> QED BY <2>2, <2>3, <2>4, <2>5
<1>7. CASE Adopt
  <2>1. PICK ok \in BOOLEAN :
          /\ Delete(ok)
          /\ IF ~ok THEN Ends
             ELSE /\ pc' = CASE run.pending \in {"dispatch", "handback"} -> "top"
                           [] run.pending = "pause" -> "paused"
                           [] OTHER -> "restoring"
                  /\ UNCHANGED run
          /\ handoff' = handoff /\ pc = "adopting"
    BY <1>7 DEF Adopt, Works
  <2>2. RecordFits'
    BY <2>1, DeleteKeeps
  <2>3. CASE ~ok
    BY <2>1, <2>2, <2>3, EndsKeeps
  <2>4. CASE ok
    <3>1. pc' \in {"top", "paused", "restoring"}
      BY <2>1, <2>4
    <3>2. pc' = "paused" => run.pending = "pause"
      BY <2>1, <2>4
    <3>3. pc' = "restoring" => run.pending \notin {"pause", "dispatch", "handback"}
      BY <2>1, <2>4
    <3>4. MemoryFits'
      BY <2>1, <2>4, <3>1, <3>2, <3>3 DEF MemoryFits, Waiting
    <3> QED BY <2>2, <3>1, <3>4 DEF WorkFits, AtWork
  <2> QED BY <2>3, <2>4
<1>8. CASE RestoreLeftovers
  <2>1. PICK left : run' = [run EXCEPT !.left = left]
    BY <1>8 DEF RestoreLeftovers
  <2>2. /\ run'.prev = run.prev /\ run'.pending = run.pending
        /\ run'.text = run.text /\ run'.held = run.held
    BY <2>1 DEF Shape, Runs
  <2>3. pc = "restoring" /\ pc' = "top" /\ UNCHANGED <<handoff, record>>
    BY <1>8 DEF RestoreLeftovers
  <2> QED BY <2>2, <2>3, RecordKeeps DEF WorkFits, MemoryFits, AtWork, Waiting
<1>9. CASE OfferUnrecorded
  <2>1. \/ run' = run
        \/ \E left : run' = [run EXCEPT !.left = left]
    BY <1>9 DEF OfferUnrecorded
  <2>2. run'.prev = <<>> /\ run'.pending = "none"
    BY <1>9, <2>1, IdleFields DEF OfferUnrecorded, MemoryFits, Shape, Runs
  <2>3. pc' = "top" /\ UNCHANGED <<handoff, record>>
    BY <1>9 DEF OfferUnrecorded
  <2> QED BY <2>2, <2>3, RecordKeeps DEF WorkFits, MemoryFits, AtWork, Waiting
<1> QED BY <1>1, <1>3, <1>4, <1>5, <1>6, <1>7, <1>8, <1>9 DEF Startup, Recover

(* A role is dispatched on a text it fits, and works from the handoff.         *)
LEMMA DispatchFits ==
  ASSUME Shape, KindInv, NEW role \in Roles, Dispatch(role)
  PROVE  Fits(role, handoff) /\ pc = "top" /\ pc' = "running"
<1>1. /\ pc = "top" /\ pc' = "running" /\ role = NextRole /\ run.pending # "handback"
  BY DEF Dispatch
<1>2. handoff \in Texts /\ handoff.kind \in Kinds
  BY DEF Shape, Texts
<1>3. /\ run.prev # <<>> => Fits(run.prev[1], run.prev[2]) /\ run.pending = "none"
      /\ run.pending = "dispatch" => Fits("backend", handoff)
      /\ run.pending \in {"auditor", "planner", "finalizer"} => Fits(run.pending, handoff)
  BY <1>1 DEF KindInv, MemoryFits, Waiting
<1>4. CASE run.prev = <<"finalizer", handoff>>
  <2>1. Fits("finalizer", handoff) /\ run.pending = "none"
    BY <1>3, <1>4
  <2> QED BY <1>1, <1>4, <2>1 DEF NextRole, Fits, KindsOf, Roles
<1>5. CASE run.prev # <<"finalizer", handoff>> /\ run.pending = "dispatch"
  BY <1>1, <1>3, <1>5 DEF NextRole
<1>6. CASE /\ run.prev # <<"finalizer", handoff>>
           /\ run.pending \in {"auditor", "planner", "finalizer"}
  BY <1>1, <1>3, <1>6 DEF NextRole, Fits, KindsOf, Roles
<1>7. CASE /\ run.prev # <<"finalizer", handoff>>
           /\ run.pending \notin {"dispatch", "auditor", "planner", "finalizer"}
  <2>1. role = Route[handoff.kind]
    BY <1>1, <1>7 DEF NextRole
  <2> QED BY <1>1, <1>2, <2>1 DEF Route, Fits, KindsOf, Roles, Kinds
<1> QED BY <1>4, <1>5, <1>6, <1>7

LEMMA DispatchFields ==
  ASSUME Shape, NEW role \in Roles, NEW seen \in BOOLEAN, NEW wrote \in BOOLEAN,
         DispatchedBy(role, seen, wrote)
  PROVE  /\ run'.role = role /\ run'.text = handoff /\ run'.base = head
         /\ run'.guard = BaselineOf /\ run'.left = LeftOf(role) /\ run'.written = wrote
         /\ run'.pre = PreOf(role, seen) /\ ~run'.back /\ run'.prev = <<>>
         /\ run'.pending = "none" /\ run'.held = NotHeld
         /\ wrote => /\ record'.role = role /\ record'.phase = "dispatch"
                     /\ record'.text = handoff /\ record'.base = head
                     /\ record'.guard = BaselineOf
         /\ ~wrote => record' = record
<1>1. /\ run' = [Idle EXCEPT !.role = role, !.text = handoff, !.pre = PreOf(role, seen),
              !.base = head, !.guard = BaselineOf, !.left = LeftOf(role), !.written = wrote]
      /\ record' = IF wrote THEN DispatchRecord(role, PreOf(role, seen), BaselineOf)
                   ELSE record
  BY Zenon DEF DispatchedBy
<1>2. Idle \in Runs /\ NoRecord \in Records
  BY Empty
<1>3. /\ run'.role = role /\ run'.text = handoff /\ run'.base = head
      /\ run'.guard = BaselineOf /\ run'.left = LeftOf(role) /\ run'.written = wrote
      /\ run'.pre = PreOf(role, seen) /\ run'.back = Idle.back /\ run'.prev = Idle.prev
      /\ run'.pending = Idle.pending /\ run'.held = Idle.held
  <2> HIDE DEF Idle
  <2> QED BY <1>1, <1>2 DEF Runs
<1>4. wrote => /\ record'.role = role /\ record'.phase = "dispatch"
               /\ record'.text = handoff /\ record'.base = head
               /\ record'.guard = BaselineOf
  BY <1>1, <1>2 DEF DispatchRecord, Records
<1> QED BY <1>1, <1>3, <1>4, IdleFields

LEMMA KindAtTop ==
  ASSUME Shape, KindInv, LoopTop
  PROVE  KindInv'
<1> USE DEF KindInv
<1>1. CASE ClearHandback
  <2>1. PICK ok \in BOOLEAN :
          /\ Delete(ok)
          /\ IF ok THEN run' = [run EXCEPT !.back = FALSE] /\ pc' = pc
                   ELSE Ends
          /\ handoff' = handoff /\ pc = "top"
    BY <1>1 DEF ClearHandback, Works
  <2>2. RecordFits'
    BY <2>1, DeleteKeeps
  <2>3. CASE ok
    <3>1. /\ run'.prev = run.prev /\ run'.pending = run.pending
          /\ run'.text = run.text /\ run'.held = run.held
      BY <2>1, <2>3 DEF Shape, Runs
    <3> QED BY <2>1, <2>2, <2>3, <3>1 DEF WorkFits, MemoryFits, AtWork, Waiting
  <2> QED BY <2>1, <2>2, <2>3, EndsKeeps
<1>2. CASE StopAtTop
  BY <1>2, EndsKeeps, RecordKeeps DEF StopAtTop
<1>3. CASE PauseForPerson
  BY <1>3, RecordKeeps DEF PauseForPerson, WorkFits, MemoryFits, AtWork, Waiting
<1>4. CASE Resume
  <2>1. run'.prev = <<>> /\ run'.pending = "none"
    BY <1>4 DEF Resume, Shape, Runs
  <2> QED BY <1>4, <2>1, RecordKeeps DEF Resume, WorkFits, MemoryFits, AtWork, Waiting
<1>5. CASE ResumeHandback
  <2>1. run'.role = "backend" /\ run'.text = run.text
    BY <1>5 DEF ResumeHandback, Shape, Runs
  <2>2. Fits("backend", run.text) /\ pc' = "recorded" /\ UNCHANGED <<handoff, record>>
    BY <1>5 DEF ResumeHandback, MemoryFits, Waiting
  <2> QED BY <2>1, <2>2, RecordKeeps DEF WorkFits, MemoryFits, AtWork, Waiting
<1>6. ASSUME NEW role \in Roles, Dispatch(role)
      PROVE  KindInv'
  <2>1. PICK seen \in BOOLEAN, wrote \in BOOLEAN : DispatchedBy(role, seen, wrote)
    BY <1>6, Dispatched
  <2>2. Fits(role, handoff) /\ pc' = "running" /\ handoff' = handoff
    BY <1>6, DispatchFits DEF Dispatch
  <2>3. /\ run'.role = role /\ run'.text = handoff /\ run'.written = wrote
        /\ wrote => record'.role = role /\ record'.phase = "dispatch" /\ record'.text = handoff
        /\ ~wrote => record' = record
    BY <2>1, DispatchFields
  <2>4. RecordFits'
    BY <2>2, <2>3 DEF RecordFits
  <2> QED BY <2>2, <2>3, <2>4 DEF WorkFits, MemoryFits, AtWork, Waiting
<1> QED BY <1>1, <1>2, <1>3, <1>4, <1>5, <1>6 DEF LoopTop

(* What a running role leaves to the dispatcher.                               *)
LEMMA RoleRunsFields ==
  ASSUME Shape, RoleRuns
  PROVE  /\ pc = "running" /\ pc' \in {"running", "returned"}
         /\ UNCHANGED <<record, carry>>
         /\ run'.role = run.role /\ run'.text = run.text /\ run'.pre = run.pre
         /\ run'.base = run.base /\ run'.guard = run.guard /\ run'.left = run.left
         /\ run'.prev = run.prev /\ run'.pending = run.pending /\ run'.held = run.held
         /\ run'.back = run.back /\ run'.written = run.written
<1>1. /\ pc = "running" /\ pc' \in {"running", "returned"}
      /\ UNCHANGED <<record, carry>>
      /\ run' = run \/ \E failed : run' = [run EXCEPT !.failed = failed]
  BY DEF RoleRuns, RoleEdits, RoleCommits, RoleWrites, RoleReturns
<1> QED BY <1>1 DEF Shape, Runs

LEMMA TopFields ==
  ASSUME NEW memory \in Runs, Top(memory)
  PROVE  /\ pc' = "top"
         /\ run'.prev = IF memory.failed THEN <<>> ELSE <<run.role, run.text>>
         /\ run'.pending = "none" /\ run'.held = NotHeld
         /\ run'.left = memory.left /\ run'.back = memory.back
<1> DEFINE prev == IF memory.failed THEN <<>> ELSE <<run.role, run.text>>
<1>1. /\ pc' = "top"
      /\ run' = [Idle EXCEPT !.left = memory.left, !.back = memory.back, !.prev = prev]
  BY DEF Top
<1>2. Idle \in Runs
  BY Empty
<1> HIDE DEF prev
<1>3. /\ run'.prev = prev /\ run'.pending = Idle.pending /\ run'.held = Idle.held
      /\ run'.left = memory.left /\ run'.back = memory.back
  BY <1>1, <1>2 DEF Runs
<1> QED BY <1>1, <1>3, IdleFields DEF prev

LEMMA KindAtWork ==
  ASSUME Shape, KindInv, RoleRuns
  PROVE  KindInv'
<1>1. RecordFits' /\ MemoryFits'
  BY RoleRunsFields, RecordKeeps DEF KindInv, MemoryFits, Waiting
<1>2. pc' = "running" /\ run.role = "finalizer" =>
        handoff' = run.text \/ handoff'.kind \in {"half", "done"}
  <2>1. CASE RoleWrites
    BY <2>1 DEF RoleWrites, Outcomes, Roles, Text
  <2>2. CASE ~RoleWrites
    <3>1. handoff' = handoff
      BY <2>2 DEF RoleRuns, RoleEdits, RoleCommits, RoleReturns
    <3> QED BY <3>1, RoleRunsFields DEF KindInv, WorkFits
  <2> QED BY <2>1, <2>2
<1>3. WorkFits'
  BY <1>2, RoleRunsFields DEF KindInv, WorkFits, AtWork
<1> QED BY <1>1, <1>3 DEF KindInv

(* The end of a cycle: the next one knows the text this one worked from.       *)
LEMMA TopKeeps ==
  ASSUME Shape, KindInv, pc \in AtWork, NEW memory \in Runs, Top(memory)
  PROVE  WorkFits' /\ MemoryFits'
<1>1. run'.prev # <<>> => Fits(run'.prev[1], run'.prev[2])
  <2>1. run'.prev # <<>> => run'.prev = <<run.role, run.text>>
    BY TopFields
  <2> QED BY <2>1 DEF KindInv, WorkFits
<1> QED BY <1>1, TopFields DEF WorkFits, MemoryFits, AtWork, Waiting

LEMMA KindAfter ==
  ASSUME Shape, KindInv, Aftermath
  PROVE  KindInv'
<1> USE DEF KindInv
<1>1. run \in Runs
  BY DEF Shape
<1>2. CASE OtherReturned
  <2>1. /\ pc \in AtWork
        /\ record' = record \/ record' = NoRecord
        /\ Ends \/ Top(run)
    BY <1>2 DEF OtherReturned, AtWork, Delete
  <2> QED BY <1>1, <2>1, EndsKeeps, TopKeeps, RecordKeeps
<1>3. CASE RecordHandback
  <2>1. /\ pc = "returned" /\ run.role = "backend" /\ UNCHANGED handoff
        /\ \/ record' = record \/ record' = NoRecord
           \/ run.written /\ record' = Handback
        /\ \/ pc' = "recorded" /\ run' = run
           \/ pc' = "recorded" /\ \E back : run' = [run EXCEPT !.back = back]
           \/ Ends
    BY <1>3 DEF RecordHandback, Delete
  <2>2. ASSUME run.written, record' = Handback
        PROVE  RecordFits'
    <3>1. record.role = "backend"
      BY <2>1, <2>2 DEF WorkFits
    <3>2. record'.role = "backend" /\ record'.text = record.text /\ record'.back = handoff
      BY <2>2, <3>1 DEF Handback, Shape, Records
    <3> QED BY <3>1, <3>2 DEF RecordFits, Shape
  <2>3. RecordFits'
    BY <2>1, <2>2, RecordKeeps
  <2>4. CASE Ends
    BY <2>3, <2>4, EndsKeeps
  <2>5. CASE pc' = "recorded" /\ (run' = run \/ \E back : run' = [run EXCEPT !.back = back])
    <3>1. run'.role = "backend" /\ run'.text = run.text
      BY <2>1, <2>5 DEF Shape, Runs
    <3>2. Fits("backend", run.text)
      BY <2>1 DEF WorkFits, AtWork
    <3> QED BY <2>3, <2>5, <3>1, <3>2 DEF WorkFits, MemoryFits, AtWork, Waiting
  <2> QED BY <2>1, <2>4, <2>5
<1>4. CASE CheckHandback
  <2>1. PICK left :
          /\ carry' = left
          /\ pc = "recorded" /\ record' = record
          /\ \/ Top([run EXCEPT !.left = left])
             \/ pc' = "checked" /\ run' = [run EXCEPT !.left = left]
    BY <1>4 DEF CheckHandback
  <2>2. left \in Lefts
    BY <1>4, <2>1, ShapeAfter DEF Aftermath, Shape
  <2>3. [run EXCEPT !.left = left] \in Runs
    BY <1>1, <2>2 DEF Runs
  <2>4. RecordFits' /\ pc \in AtWork
    BY <2>1, RecordKeeps DEF AtWork
  <2>5. CASE pc' = "checked" /\ run' = [run EXCEPT !.left = left]
    <3>1. run'.role = run.role /\ run'.text = run.text
      BY <1>1, <2>5 DEF Runs
    <3>2. run.role = "backend" /\ Fits("backend", run.text)
      BY <2>1 DEF WorkFits, AtWork
    <3> QED BY <2>4, <2>5, <3>1, <3>2 DEF WorkFits, MemoryFits, AtWork, Waiting
  <2> QED BY <2>1, <2>3, <2>4, <2>5, TopKeeps
<1>5. CASE CommitWork
  <2>1. /\ pc = "checked" /\ pc' \in {"committed", "refreshed", "unnamed"}
        /\ UNCHANGED <<record, run>>
    BY <1>5 DEF CommitWork
  <2> QED BY <2>1, RecordKeeps DEF WorkFits, MemoryFits, AtWork, Waiting
<1>6. CASE StampAndRefresh
  <2>1. /\ pc \in {"committed", "unnamed"}
        /\ record' \in {record, NoRecord, [record EXCEPT !.back = handoff', !.backHead = head]}
        /\ \/ Ends
           \/ /\ pc' = "refreshed"
              /\ \E left, back : run' = [run EXCEPT !.left = left, !.back = back]
    BY <1>6 DEF StampAndRefresh
  <2>2. handoff' \in Texts
    BY <1>6, ShapeAfter DEF Aftermath, Shape
  <2>3. ASSUME record' = [record EXCEPT !.back = handoff', !.backHead = head]
        PROVE  RecordFits'
    <3>1. /\ record'.role = record.role /\ record'.text = record.text
          /\ record'.phase = record.phase /\ record'.back = handoff'
      BY <2>3 DEF Shape, Records
    <3> QED BY <2>2, <3>1 DEF RecordFits
  <2>4. RecordFits'
    BY <2>1, <2>3, RecordKeeps
  <2>5. CASE /\ pc' = "refreshed"
             /\ \E left, back : run' = [run EXCEPT !.left = left, !.back = back]
    <3>1. run'.role = run.role /\ run'.text = run.text
      BY <1>1, <2>5 DEF Runs
    <3>2. run.role = "backend" /\ Fits("backend", run.text)
      BY <2>1 DEF WorkFits, AtWork
    <3> QED BY <2>4, <2>5, <3>1, <3>2 DEF WorkFits, MemoryFits, AtWork, Waiting
  <2> QED BY <2>1, <2>4, <2>5, EndsKeeps
<1>7. CASE Gate
  <2>1. pc \in AtWork /\ record' = record /\ Top(run)
    BY <1>7 DEF Gate, AtWork
  <2> QED BY <1>1, <2>1, TopKeeps, RecordKeeps
<1> QED BY <1>2, <1>3, <1>4, <1>5, <1>6, <1>7 DEF Aftermath

LEMMA KindStep ==
  ASSUME Shape, KindInv, [Next]_vars
  PROVE  KindInv'
<1>1. CASE UNCHANGED vars
  BY <1>1 DEF vars, KindInv, RecordFits, WorkFits, MemoryFits
<1>2. CASE Crash
  BY <1>2, EndsKeeps, RecordKeeps DEF Crash, KindInv
<1>3. CASE PersonEdits \/ PersonCommits \/ PersonWrites
  <2>1. pc \in {"down", "paused"} /\ UNCHANGED <<record, pc, run>>
    BY <1>3 DEF PersonEdits, PersonCommits, PersonWrites, Person
  <2> QED BY <2>1, RecordKeeps DEF KindInv, WorkFits, MemoryFits, AtWork, Waiting
<1> QED BY <1>1, <1>2, <1>3, KindAtStartup, KindAtTop, KindAtWork, KindAfter DEF Next, Outside

(* A carry-over record that lists no file is none.                             *)
CarryInv == carry.files = Nothing => carry = NoCarry

LEMMA SavedCarry ==
  ASSUME NEW left, carry' = Saved(left)
  PROVE  CarryInv'
BY DEF Saved, CarryInv

LEMMA CarryStep ==
  ASSUME Shape, CarryInv, [Next]_vars
  PROVE  CarryInv'
<1>1. carry' = carry \/ carry' = NoCarry \/ \E left : carry' = Saved(left)
  <2>1. CASE UNCHANGED vars
    BY <2>1 DEF vars
  <2>2. CASE Startup
    <3>1. CASE Start \/ Recover
      BY <3>1 DEF Start, Recover, NoRecordFound, RecordKept, RecordInvalid, RecoverDispatch,
        RecoverHandback, ReconcilePlannerGit, RecoverPlanner, RecoverAuditor,
        RecoverFinalizer, Discard, Confirm, StopAndKeep
    <3>2. CASE Adopt \/ RestoreLeftovers \/ OfferUnrecorded
      BY <3>2 DEF Adopt, RestoreLeftovers, OfferUnrecorded
    <3> QED BY <2>2, <3>1, <3>2 DEF Startup
  <2>3. CASE LoopTop
    <3>1. ASSUME NEW role \in Roles, Dispatch(role)
          PROVE  carry' \in {carry, NoCarry}
      BY <3>1, Dispatched, Zenon DEF DispatchedBy
    <3>2. CASE ClearHandback \/ StopAtTop \/ PauseForPerson \/ Resume \/ ResumeHandback
      BY <3>2 DEF ClearHandback, StopAtTop, PauseForPerson, Resume, ResumeHandback
    <3> QED BY <2>3, <3>1, <3>2 DEF LoopTop
  <2>4. CASE RoleRuns
    BY <2>4, RoleRunsFields
  <2>5. CASE Aftermath
    <3>1. CASE CheckHandback
      BY <3>1 DEF CheckHandback
    <3>2. CASE StampAndRefresh
      BY <3>2 DEF StampAndRefresh, Pruned
    <3>3. CASE OtherReturned \/ RecordHandback \/ CommitWork \/ Gate
      BY <3>3 DEF OtherReturned, RecordHandback, CommitWork, Gate
    <3> QED BY <2>5, <3>1, <3>2, <3>3 DEF Aftermath
  <2>6. CASE Outside
    BY <2>6 DEF Outside, Crash, PersonEdits, PersonCommits, PersonWrites, Person
  <2> QED BY <2>1, <2>2, <2>3, <2>4, <2>5, <2>6 DEF Next
<1> QED BY <1>1, SavedCarry DEF CarryInv

LEMMA KindInit == Init => KindInv /\ CarryInv
<1> SUFFICES ASSUME Init PROVE KindInv /\ CarryInv
  OBVIOUS
<1>1. pc = "down" /\ run = Idle /\ record = NoRecord /\ carry = NoCarry
  BY DEF Init
<1> QED BY <1>1 DEF KindInv, RecordFits, WorkFits, MemoryFits, AtWork, Waiting, NoRecord,
             CarryInv

LEMMA ShapeHolds == Spec => [](Shape /\ KindInv)
<1>1. Init => Shape /\ KindInv
  BY ShapeInit, KindInit
<1>2. Shape /\ KindInv /\ [Next]_vars => (Shape /\ KindInv)'
  BY ShapeStep, KindStep
<1> QED BY <1>1, <1>2, PTL DEF Spec

(* The handoff, the files, the records on disk and what is excused are what   *)
(* their readers expect: no crash, failed write or recovery leaves a record of *)
(* a role without its text, or a handback record that no implementer made.     *)
THEOREM RecordsTyped == Spec => []TypeOK
<1>1. Init => CarryInv
  BY KindInit
<1>2. Shape /\ KindInv /\ CarryInv /\ [Next]_vars => CarryInv'
  BY CarryStep
<1>3. Shape /\ KindInv /\ CarryInv => TypeOK
  <2> SUFFICES ASSUME Shape, KindInv, CarryInv PROVE TypeOK
    OBVIOUS
  <2>1. handoff \in Texts /\ told.excused \in Contents /\ \A f \in Files : tree[f] \in Contents
    BY DEF Shape, Excuses
  <2>2. /\ record.role \in Roles \cup {"nobody"}
        /\ record.role # "nobody" => record.text \in Texts
        /\ record.phase = "handback" => record.role = "backend" /\ record.back \in Texts
    BY DEF Shape, Records, KindInv, RecordFits, Fits
  <2>3. /\ carry.story \in Stories \cup {"none"}
        /\ \A f \in DOMAIN carry.files : f \in Files /\ carry.files[f] \in Contents
    BY Lists DEF Shape, Lefts
  <2> QED BY <2>1, <2>2, <2>3 DEF TypeOK, CarryInv
<1> QED BY <1>1, <1>2, <1>3, ShapeHolds, PTL DEF Spec

-----------------------------------------------------------------------------
(* A role's change of a protected file that no check has seen: the file        *)
(* differs from the baseline of the cycle; after a crash a record holds it,    *)
(* and a confirmed recovery waits with a digest no file has.                   *)

UnseenInv ==
  told.unseen = "yes" =>
    /\ tree["guard"] # <<>>
    /\ \/ pc \in {"running", "returned", "recorded"} /\ tree["guard"] # run.guard
       \/ pc \in {"down", "recovering"} /\ record.role # "nobody"
       \/ pc \in Waiting /\ run.held = Unverified

(* What the end of a run and a given up recovery excuse.                       *)
LEMMA EndsFields ==
  ASSUME Shape, Ends
  PROVE  /\ pc' = "down" /\ run' = Idle
         /\ told'.excused = told.excused /\ told'.closed = told.closed
         /\ told'.waived = (told.waived \/ Unrecorded \/ run.pending \in {"handback", "pause"})
         /\ told'.whole = (told.whole \/ Unrecorded \/ run.pending = "auditor")
         /\ told'.unseen = (IF Unrecorded \/ record.role = "nobody" THEN Lost ELSE told.unseen)
         /\ told'.again = (told.again \/ record.role # "finalizer")
<1> DEFINE waived == told.waived \/ Unrecorded \/ run.pending \in {"handback", "pause"}
           whole == told.whole \/ Unrecorded \/ run.pending = "auditor"
           unseen == IF Unrecorded \/ record.role = "nobody" THEN Lost ELSE told.unseen
           again == told.again \/ record.role # "finalizer"
<1>1. /\ pc' = "down" /\ run' = Idle
      /\ told' = [told EXCEPT !.waived = waived, !.whole = whole,
                              !.unseen = unseen, !.again = again]
  BY DEF Ends
<1> HIDE DEF waived, whole, unseen, again
<1>2. /\ told'.excused = told.excused /\ told'.closed = told.closed
      /\ told'.waived = waived /\ told'.whole = whole
      /\ told'.unseen = unseen /\ told'.again = again
  BY <1>1 DEF Shape, Excuses
<1> QED BY <1>1, <1>2 DEF waived, whole, unseen, again

LEMMA GivenUpFields ==
  ASSUME Shape
  PROVE  /\ GivenUp.waived /\ GivenUp.again /\ GivenUp.whole /\ GivenUp.unseen # "yes"
         /\ GivenUp.excused = told.excused /\ GivenUp.closed = told.closed
BY LostShape DEF Shape, GivenUp, Excuses

LEMMA EndsUnseen ==
  ASSUME Shape, UnseenInv, Ends, tree' = tree, record' = record
  PROVE  UnseenInv'
<1>1. /\ pc' = "down"
      /\ told'.unseen = (IF Unrecorded \/ record.role = "nobody" THEN Lost ELSE told.unseen)
  BY EndsFields
<1>2. told'.unseen = "yes" => told.unseen = "yes" /\ record.role # "nobody"
  BY <1>1, LostShape
<1> QED BY <1>1, <1>2 DEF UnseenInv

(* A record deleted with no question hides a change only if it is none of an  *)
(* implementer's dispatch, which is found by the file that is uncommitted.     *)
LEMMA DiscardUnseen ==
  ASSUME Shape, UnseenInv, pc = "recovering", NEW excused \in BOOLEAN, Discard(excused),
         excused \/ ~Uncommitted \/ record.role # "backend" \/ record.phase # "dispatch"
  PROVE  UnseenInv'
<1>1. PICK ok \in BOOLEAN :
        /\ record' = IF ok THEN NoRecord ELSE record
        /\ pc' = IF ok THEN "restoring" ELSE "down"
        /\ told' = CASE ok /\ excused -> GivenUp
                     [] ok /\ ~excused -> [told EXCEPT !.unseen = Unasked]
                     [] OTHER -> told
        /\ tree' = tree
  BY DEF Discard, Delete, Works
<1>2. CASE ok /\ excused
  <2>1. told' = GivenUp
    BY <1>1, <1>2
  <2> QED BY <2>1, GivenUpFields DEF UnseenInv
<1>3. CASE ok /\ ~excused
  <2>1. told'.unseen = Unasked
    BY <1>1, <1>3 DEF Shape, Excuses
  <2>2. told.unseen = "yes" => Uncommitted
    BY DEF UnseenInv, Uncommitted, Dirty, Files
  <2>3. Unasked # "yes"
    BY <1>3, <2>2 DEF Unasked
  <2> QED BY <2>1, <2>3 DEF UnseenInv
<1>4. CASE ~ok
  BY <1>1, <1>4 DEF UnseenInv, Waiting
<1> QED BY <1>2, <1>3, <1>4

LEMMA ConfirmUnseen ==
  ASSUME Shape, UnseenInv, pc = "recovering", NEW text, NEW memory, NEW vouched \in BOOLEAN,
         Confirm(text, memory, vouched), memory.held = Baseline
  PROVE  UnseenInv'
<1>1. \/ /\ pc' = "adopting" /\ run' = memory /\ tree' = tree
         /\ told' = [told EXCEPT !.excused = IF vouched THEN tree["code"] ELSE @,
                                 !.whole = TRUE]
      \/ told' = GivenUp
  BY DEF Confirm
<1>2. \/ pc' = "adopting" /\ run' = memory /\ tree' = tree /\ told'.unseen = told.unseen
      \/ told'.unseen # "yes"
  <2>1. CASE told' = GivenUp
    BY <2>1, GivenUpFields
  <2>2. CASE /\ pc' = "adopting" /\ run' = memory /\ tree' = tree
             /\ told' = [told EXCEPT !.excused = IF vouched THEN tree["code"] ELSE @,
                                     !.whole = TRUE]
    BY <2>2 DEF Shape, Excuses
  <2> QED BY <1>1, <2>1, <2>2
<1>3. tree["guard"] # <<>> => Baseline = Unverified
  BY DEF Baseline, Uncommitted, Dirty, Files
<1> QED BY <1>2, <1>3 DEF UnseenInv, Waiting

LEMMA UnseenAtStartup ==
  ASSUME Shape, KindInv, UnseenInv, Startup
  PROVE  UnseenInv'
<1>1. CASE Start
  BY <1>1 DEF Start, UnseenInv, Waiting
<1>2. CASE NoRecordFound
  BY <1>2 DEF NoRecordFound, UnseenInv, Waiting
<1>3. CASE RecordKept \/ RecordInvalid
  <2>1. told'.unseen # "yes"
    BY <1>3, GivenUpFields DEF RecordKept, RecordInvalid
  <2> QED BY <2>1 DEF UnseenInv
<1>4. CASE RecoverDispatch
  <2> DEFINE pending == IF OperatorChanged = {} THEN "dispatch" ELSE "pause"
             waits == Waits(pending)
             memory == [waits EXCEPT !.left = Interrupted]
             vouched == "code" \in AgentFiles
  <2>1. /\ pc = "recovering"
        /\ \/ Discard(TRUE)
           \/ ~Uncommitted /\ Discard(FALSE)
           \/ Confirm(record.text, memory, vouched)
    BY <1>4 DEF RecoverDispatch
  <2>2. pending \in Pendings /\ vouched \in BOOLEAN
    BY DEF Pendings
  <2> HIDE DEF pending, vouched
  <2>3. waits \in Runs /\ waits.held = Baseline
    BY <2>2, WaitsFields
  <2> HIDE DEF waits
  <2>4. memory.held = Baseline
    BY <2>3 DEF Runs
  <2> HIDE DEF memory
  <2> QED BY <2>1, <2>2, <2>4, DiscardUnseen, ConfirmUnseen
<1>5. CASE RecoverHandback
  <2> DEFINE pending == IF OperatorChanged = {} THEN "handback" ELSE "pause"
             waits == Waits(pending)
             memory == [waits EXCEPT !.left = Interrupted, !.text = record.text,
                                     !.pre = record.dirty]
             vouched == "code" \in AgentFiles
  <2>1. /\ pc = "recovering"
        /\ record.phase = "handback"
        /\ \/ Discard(TRUE) \/ Discard(FALSE)
           \/ Confirm(handoff, memory, vouched)
    BY <1>5 DEF RecoverHandback
  <2>2. pending \in Pendings /\ vouched \in BOOLEAN
    BY DEF Pendings
  <2> HIDE DEF pending, vouched
  <2>3. waits \in Runs /\ waits.held = Baseline
    BY <2>2, WaitsFields
  <2> HIDE DEF waits
  <2>4. memory.held = Baseline
    BY <2>3 DEF Runs
  <2> HIDE DEF memory
  <2> QED BY <2>1, <2>2, <2>4, DiscardUnseen, ConfirmUnseen
<1>6. CASE ReconcilePlannerGit \/ RecoverPlanner \/ RecoverAuditor \/ RecoverFinalizer
  <2> DEFINE pending == IF LedgerCommitted THEN "finalizer" ELSE "none"
  <2>1. /\ pc = "recovering" /\ record.role # "backend"
        /\ \/ Discard(TRUE) \/ Discard(FALSE)
           \/ \E p \in {"planner", "auditor", pending} : Confirm(record.text, Waits(p), FALSE)
           \/ pc' \in {"down", "recovering"} /\ UNCHANGED <<tree, record, told>>
    BY <1>6 DEF ReconcilePlannerGit, RecoverPlanner, RecoverAuditor, RecoverFinalizer,
                StopAndKeep
  <2>2. \A p \in {"planner", "auditor", pending} : Waits(p).held = Baseline
    <3>1. {"planner", "auditor", pending} \subseteq Pendings
      BY DEF Pendings
    <3> QED BY <3>1, WaitsFields
  <2>3. CASE pc' \in {"down", "recovering"} /\ UNCHANGED <<tree, record, told>>
    BY <2>1, <2>3 DEF UnseenInv, Waiting
  <2> HIDE DEF pending
  <2> QED BY <2>1, <2>2, <2>3, DiscardUnseen, ConfirmUnseen
<1>7. CASE Adopt
  <2>1. /\ tree' = tree /\ pc = "adopting"
        /\ \/ Ends /\ record' = record
           \/ pc' \in {"top", "paused", "restoring"} /\ UNCHANGED <<run, told>>
    BY <1>7 DEF Adopt, Delete
  <2>2. CASE pc' \in {"top", "paused", "restoring"} /\ UNCHANGED <<run, told>>
    BY <2>1, <2>2 DEF UnseenInv, Waiting
  <2> QED BY <2>1, <2>2, EndsUnseen
<1>8. CASE RestoreLeftovers
  <2>1. /\ pc = "restoring" /\ pc' = "top" /\ tree' = tree
        /\ \E left, excused : /\ run' = [run EXCEPT !.left = left]
                              /\ told' = [told EXCEPT !.excused = excused]
    BY <1>8 DEF RestoreLeftovers
  <2>2. run'.held = run.held /\ told'.unseen = told.unseen
    BY <2>1 DEF Shape, Runs, Excuses
  <2> QED BY <2>1, <2>2 DEF UnseenInv, Waiting
<1>9. CASE OfferUnrecorded
  <2>1. /\ pc = "unrecorded"
        /\ told' = told \/ \E excused : told' = [told EXCEPT !.excused = excused]
    BY <1>9 DEF OfferUnrecorded
  <2>2. told.unseen # "yes"
    BY <2>1 DEF UnseenInv, Waiting
  <2>3. told'.unseen = told.unseen
    BY <2>1 DEF Shape, Excuses
  <2> QED BY <2>2, <2>3 DEF UnseenInv
<1> QED BY <1>1, <1>2, <1>3, <1>4, <1>5, <1>6, <1>7, <1>8, <1>9 DEF Startup, Recover

LEMMA UnseenAtTop ==
  ASSUME Shape, KindInv, UnseenInv, LoopTop
  PROVE  UnseenInv'
<1>1. CASE ClearHandback
  <2>1. /\ tree' = tree /\ pc = "top"
        /\ \/ Ends /\ record' = record
           \/ run' = [run EXCEPT !.back = FALSE] /\ UNCHANGED <<pc, told>>
    BY <1>1 DEF ClearHandback, Delete
  <2>2. CASE run' = [run EXCEPT !.back = FALSE] /\ UNCHANGED <<pc, told>>
    <3>1. run'.held = run.held
      BY <2>2 DEF Shape, Runs
    <3> QED BY <2>1, <2>2, <3>1 DEF UnseenInv, Waiting
  <2> QED BY <2>1, <2>2, EndsUnseen
<1>2. CASE StopAtTop
  BY <1>2, EndsUnseen DEF StopAtTop
<1>3. CASE PauseForPerson
  BY <1>3 DEF PauseForPerson, UnseenInv, Waiting
<1>4. CASE Resume
  <2>1. run'.held = run.held /\ told'.unseen = told.unseen
    BY <1>4 DEF Resume, Shape, Runs, Excuses
  <2> QED BY <1>4, <2>1 DEF Resume, UnseenInv, Waiting
<1>5. CASE ResumeHandback
  <2>1. /\ run'.guard = run.held /\ pc = "top" /\ pc' = "recorded"
        /\ UNCHANGED <<tree, told>>
    BY <1>5 DEF ResumeHandback, Shape, Runs
  <2>2. tree["guard"] # Unverified
    BY NoContent DEF Shape, Files
  <2> QED BY <2>1, <2>2 DEF UnseenInv, Waiting
<1>6. ASSUME NEW role \in Roles, Dispatch(role)
      PROVE  UnseenInv'
  <2>1. PICK seen \in BOOLEAN, wrote \in BOOLEAN : DispatchedBy(role, seen, wrote)
    BY <1>6, Dispatched
  <2>2. run'.guard = BaselineOf /\ pc = "top" /\ pc' = "running" /\ tree' = tree
    BY <1>6, <2>1, DispatchFields DEF Dispatch
  <2>3. told'.unseen = UnseenOf
    <3>1. told' = [told EXCEPT !.excused = IF seen THEN @ ELSE tree["code"],
                     !.waived = WaivedOf(role, wrote), !.closed = ClosedOf(role),
                     !.again = AgainOf(role), !.unseen = UnseenOf]
      BY <2>1, Zenon DEF DispatchedBy
    <3> QED BY <3>1 DEF Shape, Excuses
  <2>4. told.unseen = "yes" => run.held = Unverified /\ tree["guard"] # <<>>
    BY <2>2 DEF UnseenInv, Waiting
  <2>5. tree["guard"] # Unverified /\ Unverified # NotHeld
    BY NoContent DEF Shape, Files
  <2> QED BY <2>2, <2>3, <2>4, <2>5 DEF UnseenInv, BaselineOf, UnseenOf
<1> QED BY <1>1, <1>2, <1>3, <1>4, <1>5, <1>6 DEF LoopTop

LEMMA UnseenAtWork ==
  ASSUME Shape, KindInv, UnseenInv, RoleRuns
  PROVE  UnseenInv'
<1>1. pc = "running" /\ pc' \in {"running", "returned"} /\ run'.guard = run.guard
  BY RoleRunsFields
<1>2. CASE RoleEdits
  <2>1. ASSUME NEW f \in {"code", "ledger"}, Edit(f, run.text.story), UNCHANGED told
        PROVE  UnseenInv'
    <3>1. tree'["guard"] = tree["guard"]
      BY <2>1 DEF Edit, Shape, Files
    <3> QED BY <1>1, <2>1, <3>1 DEF UnseenInv, Waiting
  <2>2. ASSUME Edit("guard", run.text.story),
               told' = [told EXCEPT !.unseen =
                          IF tree'["guard"] # run.guard THEN "yes" ELSE "no"]
        PROVE  UnseenInv'
    <3>1. tree'["guard"] = Append(tree["guard"], run.text.story)
      BY <2>2 DEF Edit, Shape, Files
    <3>2. tree["guard"] \in Seq(Authors) /\ run.text.story \in Authors
      BY <1>1, RunningShape DEF Shape, Files, Contents, Authors, AtWork
    <3>3. tree'["guard"] # <<>>
      <4>1. ASSUME NEW q \in Seq(Authors), NEW x \in Authors
            PROVE  Append(q, x) # <<>>
        <5>1. Len(Append(q, x)) = Len(q) + 1 /\ Len(q) \in Nat
          OBVIOUS
        <5> QED BY <5>1
      <4> QED BY <3>1, <3>2, <4>1
    <3> DEFINE unseen == IF tree'["guard"] # run.guard THEN "yes" ELSE "no"
    <3>4. told' = [told EXCEPT !.unseen = unseen]
      BY <2>2
    <3> HIDE DEF unseen
    <3>5. told'.unseen = unseen
      BY <3>4 DEF Shape, Excuses
    <3> QED BY <1>1, <3>3, <3>5 DEF UnseenInv, unseen
  <2> QED BY <1>2, <2>1, <2>2 DEF RoleEdits
<1>3. CASE RoleCommits \/ RoleWrites \/ RoleReturns
  <2>1. tree'["guard"] = tree["guard"]
    BY <1>3 DEF RoleCommits, RoleWrites, RoleReturns, Shape, Files
  <2>2. told'.unseen = told.unseen
    <3>1. CASE RoleWrites
      <4> DEFINE closed == told.closed /\ ~(run.role = "auditor" /\ handoff'.kind = "approved")
      <4>1. told' = [told EXCEPT !.closed = closed, !.whole = FALSE]
        BY <3>1 DEF RoleWrites
      <4> HIDE DEF closed
      <4> QED BY <4>1 DEF Shape, Excuses
    <3>2. CASE RoleCommits \/ RoleReturns
      BY <3>2 DEF RoleCommits, RoleReturns, Shape, Excuses
    <3> QED BY <1>3, <3>1, <3>2
  <2> QED BY <1>1, <2>1, <2>2 DEF UnseenInv, Waiting
<1> QED BY <1>2, <1>3 DEF RoleRuns

LEMMA EscalateUnseen ==
  ASSUME Shape, Escalate
  PROVE  told'.unseen # "yes" /\ UnseenInv'
BY DEF Escalate, Shape, Excuses, UnseenInv

LEMMA UnseenAfter ==
  ASSUME Shape, KindInv, UnseenInv, Aftermath
  PROVE  UnseenInv'
<1>1. CASE OtherReturned
  <2> DEFINE again == told.again \/ run.failed
  <2>1. /\ tree' = tree /\ pc = "returned"
        /\ \/ Ends /\ record' = record
           \/ Escalate
           \/ tree["guard"] = run.guard /\ told' = [told EXCEPT !.again = again]
    BY <1>1 DEF OtherReturned, Delete
  <2> HIDE DEF again
  <2>2. ASSUME tree["guard"] = run.guard, told' = [told EXCEPT !.again = again]
        PROVE  told'.unseen # "yes"
    <3>1. told'.unseen = told.unseen
      BY <2>2 DEF Shape, Excuses
    <3> QED BY <2>1, <2>2, <3>1 DEF UnseenInv, Waiting
  <2> QED BY <2>1, <2>2, EndsUnseen, EscalateUnseen DEF UnseenInv
<1>2. CASE RecordHandback
  <2>1. /\ tree' = tree /\ pc = "returned"
        /\ \/ pc' = "recorded" /\ UNCHANGED <<run, told>>
           \/ pc' = "recorded" /\ UNCHANGED told /\ \E back : run' = [run EXCEPT !.back = back]
           \/ Ends /\ record' = record
    BY <1>2 DEF RecordHandback, Delete
  <2>2. CASE Ends /\ record' = record
    BY <2>1, <2>2, EndsUnseen
  <2>3. CASE pc' = "recorded" /\ UNCHANGED told
             /\ (run' = run \/ \E back : run' = [run EXCEPT !.back = back])
    <3>1. run'.guard = run.guard
      BY <2>3 DEF Shape, Runs
    <3> QED BY <2>1, <2>3, <3>1 DEF UnseenInv, Waiting
  <2> QED BY <2>1, <2>2, <2>3
<1>3. CASE CheckHandback
  <2> DEFINE waived == told.waived \/ run.failed
  <2>1. /\ pc = "recorded"
        /\ \/ Escalate
           \/ tree["guard"] = run.guard
              /\ (told' = told \/ told' = [told EXCEPT !.waived = waived])
    BY <1>3 DEF CheckHandback
  <2> HIDE DEF waived
  <2>2. ASSUME tree["guard"] = run.guard, told' = told \/ told' = [told EXCEPT !.waived = waived]
        PROVE  told'.unseen # "yes"
    <3>1. told'.unseen = told.unseen
      BY <2>2 DEF Shape, Excuses
    <3> QED BY <2>1, <2>2, <3>1 DEF UnseenInv, Waiting
  <2> QED BY <2>1, <2>2, EscalateUnseen DEF UnseenInv
<1>4. CASE CommitWork \/ StampAndRefresh \/ Gate
  <2>1. told.unseen # "yes"
    BY <1>4 DEF CommitWork, StampAndRefresh, Gate, UnseenInv, Waiting
  <2>2. told' = told \/ told' = [told EXCEPT !.excused = <<>>] \/ Ends
    BY <1>4 DEF CommitWork, StampAndRefresh, Gate
  <2>3. CASE Ends
    <3>1. UNCHANGED tree
      BY <1>4, <2>3 DEF CommitWork, StampAndRefresh, Gate, Ends, Top
    <3>2. told'.unseen # "yes"
      BY <2>1, <2>3, EndsFields, LostShape
    <3> QED BY <3>2 DEF UnseenInv
  <2>4. CASE told' = told \/ told' = [told EXCEPT !.excused = <<>>]
    BY <2>1, <2>4 DEF Shape, Excuses, UnseenInv
  <2> QED BY <2>2, <2>3, <2>4
<1> QED BY <1>1, <1>2, <1>3, <1>4 DEF Aftermath

LEMMA UnseenOutside ==
  ASSUME Shape, KindInv, UnseenInv, Outside
  PROVE  UnseenInv'
<1>1. CASE Crash
  BY <1>1, EndsUnseen DEF Crash
<1>2. CASE PersonEdits
  <2>1. PICK f \in Files :
          /\ told' = [told EXCEPT !.unseen = IF f = "guard" THEN "no" ELSE @]
          /\ tree' = [tree EXCEPT ![f] = <<>>] \/ Edit(f, "op")
    BY <1>2, Zenon DEF PersonEdits, Dirty, Files
  <2> DEFINE unseen == IF f = "guard" THEN "no" ELSE told.unseen
  <2>2. told' = [told EXCEPT !.unseen = unseen]
    BY <2>1
  <2> HIDE DEF unseen
  <2>3. told'.unseen = unseen
    BY <2>2 DEF Shape, Excuses
  <2>4. f # "guard" => tree'["guard"] = tree["guard"]
    BY <2>1 DEF Edit, Shape, Files
  <2>5. UNCHANGED <<record, pc, run>>
    BY <1>2 DEF PersonEdits, Person
  <2> QED BY <2>3, <2>4, <2>5 DEF UnseenInv, unseen
<1>3. CASE PersonCommits \/ PersonWrites
  <2>1. told'.unseen = told.unseen
    BY <1>3 DEF PersonCommits, PersonWrites, Shape, Excuses
  <2>2. tree'["guard"] = tree["guard"]
    BY <1>3 DEF PersonCommits, PersonWrites, Shape, Files
  <2>3. UNCHANGED <<record, pc, run>>
    BY <1>3 DEF PersonCommits, PersonWrites, Person
  <2> QED BY <2>1, <2>2, <2>3 DEF UnseenInv
<1> QED BY <1>1, <1>2, <1>3 DEF Outside

LEMMA UnseenHolds == Spec => []UnseenInv
<1>1. Init => UnseenInv
  BY DEF Init, UnseenInv
<1>2. Shape /\ KindInv /\ UnseenInv /\ [Next]_vars => UnseenInv'
  <2>1. UnseenInv /\ UNCHANGED vars => UnseenInv'
    BY DEF vars, UnseenInv
  <2> QED BY <2>1, UnseenAtStartup, UnseenAtTop, UnseenAtWork, UnseenAfter, UnseenOutside
          DEF Next
<1> QED BY <1>1, <1>2, ShapeHolds, PTL DEF Spec

(* No dispatch takes the protected files as they are for its baseline while a *)
(* change some role made to them waits to be checked: the record on disk still *)
(* holds the baseline, or the next dispatch waits with one no file matches.    *)
(* What ends the wait without a check is named by the history: a record lost,  *)
(* unreadable or declined, and one deleted unasked, which by this theorem is   *)
(* never that of an implementer before its handback.                           *)
THEOREM ChangesAreChecked == Spec => GuardChecked
<1>1. ASSUME Shape, KindInv, UnseenInv,
             NEW role \in Roles, Dispatch(role), run.held = NotHeld
      PROVE  told.unseen # "yes"
  <2>1. pc = "top"
    BY <1>1 DEF Dispatch
  <2> QED BY <1>1, <2>1, NoContent DEF UnseenInv, Waiting
<1>2. Shape /\ KindInv /\ UnseenInv /\ [Next]_vars =>
        [\A role \in Roles : Dispatch(role) /\ run.held = NotHeld => told.unseen # "yes"]_vars
  BY <1>1
<1> QED BY <1>2, ShapeHolds, UnseenHolds, PTL DEF Spec, GuardChecked

-----------------------------------------------------------------------------
(* What a start with a record can do: leave it, drop it, stop, undo a planner's *)
(* commits of the handoff, or take the work up.                                *)

Moved == head # record.backHead \/ handoff # record.back

\* A record that is dropped as nothing is left to recover.
Settled ==
  \/ record.role = "backend" /\ record.phase = "dispatch" /\ handoff = record.text
  \/ record.phase = "handback" /\ Moved
  \/ record.role = "planner"
  \/ record.role = "auditor" /\ handoff = record.text
  \/ /\ record.role = "finalizer" /\ Anchored /\ ~MovedOn
     /\ \/ Finished("finalizer", handoff)
        \/ ~LedgerCommitted /\ handoff = record.text

\* The handoff written for a confirmed recovery, and what waits for its dispatch.
Taken(text, memory) ==
  \/ /\ record.role = "backend" /\ record.phase = "dispatch"
     /\ text = record.text /\ memory.pending \in {"dispatch", "pause"}
     /\ memory.left = Interrupted
  \/ /\ record.role = "backend" /\ record.phase = "handback" /\ ~Moved
     /\ text = handoff /\ memory.pending \in {"handback", "pause"}
     /\ memory.left = Interrupted /\ memory.pre = record.dirty
     /\ memory.text = record.text
  \/ /\ record.role = "planner" /\ text = record.text
     /\ memory.pending = "planner" /\ memory.left = NoCarry
  \/ /\ record.role = "auditor" /\ text = record.text
     /\ memory.pending = "auditor" /\ memory.left = NoCarry
  \/ /\ record.role = "finalizer" /\ text = record.text /\ Anchored /\ ~MovedOn
     /\ memory.pending = IF LedgerCommitted THEN "finalizer" ELSE "none"
     /\ memory.left = NoCarry

Vouched == record.role = "backend" /\ "code" \in AgentFiles

TakeUp(text, memory) ==
  /\ text \in Texts /\ memory \in Runs
  /\ Confirm(text, memory, Vouched)
  /\ memory.prev = <<>> /\ ~memory.back /\ memory.held = Baseline
  /\ Taken(text, memory)

UndoNotes ==
  /\ record.role = "planner" /\ Anchored /\ head' = record.base
  /\ UNCHANGED <<handoff, tree, record, carry, pc, run, told>>

LEMMA WaitsFor ==
  ASSUME Shape, NEW pending \in Pendings, NEW memory, NEW left \in Lefts,
         \/ memory = Waits(pending) /\ left = NoCarry
         \/ memory = [Waits(pending) EXCEPT !.left = left]
  PROVE  /\ memory \in Runs /\ memory.pending = pending /\ memory.left = left
         /\ memory.prev = <<>> /\ ~memory.back /\ memory.held = Baseline
<1> DEFINE waits == Waits(pending)
<1>1. /\ waits \in Runs /\ waits.prev = <<>> /\ ~waits.back /\ waits.held = Baseline
      /\ waits.pending = pending
  BY WaitsFields
<1>2. waits.left = NoCarry
  <2>1. waits.left = Idle.left
    <3>1. Idle \in Runs
      BY Empty
    <3> HIDE DEF Idle
    <3> QED BY <3>1 DEF Waits, Runs
  <2> QED BY <2>1, IdleFields
<1>3. CASE memory = Waits(pending) /\ left = NoCarry
  BY <1>1, <1>2, <1>3
<1>4. CASE memory = [Waits(pending) EXCEPT !.left = left]
  <2>1. memory = [waits EXCEPT !.left = left]
    BY <1>4
  <2> HIDE DEF waits
  <2>2. memory \in Runs /\ memory.left = left /\ memory.prev = waits.prev
        /\ memory.back = waits.back /\ memory.held = waits.held
        /\ memory.pending = waits.pending
    BY <1>1, <2>1 DEF Runs
  <2> QED BY <1>1, <2>2
<1> QED BY <1>3, <1>4

WaitsForTheGate(pending, left, text, pre) ==
  [Waits(pending) EXCEPT !.left = left, !.text = text, !.pre = pre]

LEMMA WaitsForGate ==
  ASSUME Shape, NEW pending \in Pendings, NEW left \in Lefts, NEW text \in MaybeTexts,
         NEW pre \in Printed, NEW memory,
         memory = WaitsForTheGate(pending, left, text, pre)
  PROVE  /\ memory \in Runs /\ memory.pending = pending /\ memory.left = left
         /\ memory.prev = <<>> /\ ~memory.back /\ memory.held = Baseline
         /\ memory.text = text /\ memory.pre = pre
<1> DEFINE waits == Waits(pending)
<1>1. /\ waits \in Runs /\ waits.prev = <<>> /\ ~waits.back /\ waits.held = Baseline
      /\ waits.pending = pending
  BY WaitsFields
<1>2. memory = [waits EXCEPT !.left = left, !.text = text, !.pre = pre]
  BY DEF WaitsForTheGate
<1> HIDE DEF waits
<1>3. memory \in Runs
  BY <1>1, <1>2 DEF Runs
<1>4. memory.left = left /\ memory.text = text /\ memory.pre = pre
  BY <1>1, <1>2 DEF Runs
<1>5. /\ memory.prev = waits.prev /\ memory.back = waits.back
      /\ memory.held = waits.held /\ memory.pending = waits.pending
  BY <1>1, <1>2 DEF Runs
<1> QED BY <1>1, <1>3, <1>4, <1>5

LEMMA RecoverCases ==
  ASSUME Shape, KindInv, Recover
  PROVE  /\ pc = "recovering" /\ run = Idle
         /\ \/ NoRecordFound \/ RecordKept \/ RecordInvalid
            \/ record.role # "nobody" /\ (Discard(TRUE) \/ StopAndKeep \/ UndoNotes)
            \/ Settled /\ Discard(FALSE)
            \/ \E text, memory : TakeUp(text, memory)
<1>0. pc = "recovering" /\ run = Idle
  BY DEF Recover, NoRecordFound, RecordKept, RecordInvalid, RecoverDispatch, RecoverHandback,
         ReconcilePlannerGit, RecoverPlanner, RecoverAuditor, RecoverFinalizer,
         KindInv, MemoryFits
<1>1. ASSUME record.role \in Roles
      PROVE  record.text \in Texts /\ record.text \in MaybeTexts /\ Interrupted \in Lefts
  <2>1. record.text \in Texts
    BY <1>1 DEF KindInv, RecordFits, Fits, Roles
  <2>2. Prints(AgentFiles) \in Printed
    BY PrintsList DEF AgentFiles, Dirty
  <2> QED BY <2>1, <2>2 DEF Interrupted, Lefts, Texts, MaybeTexts
<1>2. CASE RecoverDispatch
  <2> DEFINE pending == IF OperatorChanged = {} THEN "dispatch" ELSE "pause"
             memory == [Waits(pending) EXCEPT !.left = Interrupted]
  <2>1. /\ record.role = "backend" /\ record.phase = "dispatch"
        /\ \/ Discard(TRUE)
           \/ Discard(FALSE) /\ handoff = record.text
           \/ Confirm(record.text, memory, "code" \in AgentFiles)
    BY <1>2 DEF RecoverDispatch
  <2>2. pending \in {"dispatch", "pause"} /\ pending \in Pendings
    BY DEF Pendings
  <2>3. record.text \in Texts /\ Interrupted \in Lefts
    BY <1>1, <2>1 DEF Roles
  <2> HIDE DEF pending
  <2>4. /\ memory \in Runs /\ memory.pending = pending /\ memory.left = Interrupted
        /\ memory.prev = <<>> /\ ~memory.back /\ memory.held = Baseline
    BY <2>2, <2>3, WaitsFor
  <2> HIDE DEF memory
  <2>5. CASE Confirm(record.text, memory, "code" \in AgentFiles)
    <3>1. Vouched = ("code" \in AgentFiles)
      BY <2>1 DEF Vouched
    <3>2. Confirm(record.text, memory, Vouched)
      BY <2>5, <3>1
    <3>3. Taken(record.text, memory)
      BY <2>1, <2>2, <2>4 DEF Taken
    <3> QED BY <1>0, <2>3, <2>4, <3>2, <3>3 DEF TakeUp
  <2> QED BY <1>0, <2>1, <2>5 DEF Settled
<1>3. CASE RecoverHandback
  <2> DEFINE pending == IF OperatorChanged = {} THEN "handback" ELSE "pause"
             memory == [Waits(pending) EXCEPT !.left = Interrupted, !.text = record.text,
                                              !.pre = record.dirty]
  <2>1. /\ record.phase = "handback"
        /\ \/ Discard(TRUE)
           \/ Moved /\ Discard(FALSE)
           \/ ~Moved /\ Confirm(handoff, memory, "code" \in AgentFiles)
    BY <1>3 DEF RecoverHandback, Moved
  <2>2. pending \in {"handback", "pause"} /\ pending \in Pendings
    BY DEF Pendings
  <2>3. record.role = "backend"
    BY <2>1 DEF KindInv, RecordFits
  <2>4. /\ handoff \in Texts /\ Interrupted \in Lefts
        /\ record.text \in MaybeTexts /\ record.dirty \in Printed
    BY <1>1, <2>3 DEF Roles, Shape, Records
  <2> HIDE DEF pending
  <2>5. /\ memory \in Runs /\ memory.pending = pending /\ memory.left = Interrupted
        /\ memory.prev = <<>> /\ ~memory.back /\ memory.held = Baseline
        /\ memory.text = record.text /\ memory.pre = record.dirty
    <3>1. memory = WaitsForTheGate(pending, Interrupted, record.text, record.dirty)
      BY DEF WaitsForTheGate
    <3> HIDE DEF memory
    <3> QED BY <2>2, <2>4, <3>1, WaitsForGate
  <2> HIDE DEF memory
  <2>7. CASE ~Moved /\ Confirm(handoff, memory, "code" \in AgentFiles)
    <3>1. Vouched = ("code" \in AgentFiles)
      BY <2>3 DEF Vouched
    <3>2. Confirm(handoff, memory, Vouched)
      BY <2>7, <3>1
    <3>3. Taken(handoff, memory)
      BY <2>1, <2>2, <2>3, <2>5, <2>7 DEF Taken
    <3> QED BY <1>0, <2>4, <2>5, <3>2, <3>3 DEF TakeUp
  <2> QED BY <1>0, <2>1, <2>3, <2>7 DEF Settled
<1>4. CASE ReconcilePlannerGit
  BY <1>0, <1>4 DEF ReconcilePlannerGit, UndoNotes
<1>5. CASE RecoverPlanner \/ RecoverAuditor \/ RecoverFinalizer
  <2> DEFINE pending == CASE record.role = "finalizer" ->
                               IF LedgerCommitted THEN "finalizer" ELSE "none"
                          [] OTHER -> record.role
             memory == Waits(pending)
  <2>1. /\ record.role \in {"planner", "auditor", "finalizer"}
        /\ \/ Discard(TRUE) \/ StopAndKeep
           \/ Settled /\ Discard(FALSE)
           \/ /\ Confirm(record.text, memory, FALSE)
              /\ record.role = "finalizer" => Anchored /\ ~MovedOn
    <3>1. CASE RecoverPlanner
      BY <3>1 DEF RecoverPlanner, Settled
    <3>2. CASE RecoverAuditor
      BY <3>2 DEF RecoverAuditor, Settled
    <3>3. CASE RecoverFinalizer
      BY <3>3 DEF RecoverFinalizer, Settled
    <3> QED BY <1>5, <3>1, <3>2, <3>3
  <2>2. /\ pending \in Pendings
        /\ record.role = "planner" => pending = "planner"
        /\ record.role = "auditor" => pending = "auditor"
        /\ record.role = "finalizer" =>
             pending = IF LedgerCommitted THEN "finalizer" ELSE "none"
    BY <2>1 DEF Pendings
  <2>3. record.text \in Texts /\ NoCarry \in Lefts
    BY <1>1, <2>1, Empty DEF Roles
  <2> HIDE DEF pending
  <2>4. /\ memory \in Runs /\ memory.pending = pending /\ memory.left = NoCarry
        /\ memory.prev = <<>> /\ ~memory.back /\ memory.held = Baseline
    BY <2>2, <2>3, WaitsFor
  <2> HIDE DEF memory
  <2>5. CASE /\ Confirm(record.text, memory, FALSE)
             /\ record.role = "finalizer" => Anchored /\ ~MovedOn
    <3>1. Vouched = FALSE
      BY <2>1 DEF Vouched
    <3>2. Confirm(record.text, memory, Vouched)
      BY <2>5, <3>1
    <3>3. Taken(record.text, memory)
      BY <2>1, <2>2, <2>4, <2>5 DEF Taken
    <3> QED BY <1>0, <2>3, <2>4, <3>2, <3>3 DEF TakeUp
  <2> QED BY <1>0, <2>1, <2>5
<1> QED BY <1>0, <1>2, <1>3, <1>4, <1>5 DEF Recover

(* What dropping a record and taking its work up leave.                        *)
LEMMA DiscardFields ==
  ASSUME Shape, NEW excused \in BOOLEAN, Discard(excused)
  PROVE  /\ UNCHANGED <<handoff, tree, head, carry, run>>
         /\ told'.excused = told.excused /\ told'.closed = told.closed
         /\ told.waived => told'.waived
         /\ told.whole => told'.whole
         /\ told.again => told'.again
         /\ \/ /\ pc' = "restoring" /\ record' = NoRecord
               /\ excused => told'.waived /\ told'.whole /\ told'.again
            \/ pc' = "down" /\ record' = record
<1>1. PICK ok \in BOOLEAN :
        /\ record' = IF ok THEN NoRecord ELSE record
        /\ pc' = IF ok THEN "restoring" ELSE "down"
        /\ told' = CASE ok /\ excused -> GivenUp
                     [] ok /\ ~excused -> [told EXCEPT !.unseen = Unasked]
                     [] OTHER -> told
        /\ UNCHANGED <<handoff, tree, head, carry, run>>
  BY DEF Discard, Delete, Works
<1>3. CASE ok /\ excused
  BY <1>1, <1>3, GivenUpFields
<1>4. CASE ~(ok /\ excused)
  <2>0. told' = [told EXCEPT !.unseen = Unasked] \/ told' = told
    BY <1>1, <1>4
  <2>1. /\ told'.excused = told.excused /\ told'.closed = told.closed
        /\ told'.waived = told.waived /\ told'.whole = told.whole /\ told'.again = told.again
    BY <2>0 DEF Shape, Excuses
  <2> QED BY <1>1, <1>4, <2>1
<1> QED BY <1>3, <1>4

LEMMA ConfirmFields ==
  ASSUME Shape, NEW text, NEW memory, NEW vouched \in BOOLEAN, Confirm(text, memory, vouched)
  PROVE  \/ /\ handoff' = text /\ pc' = "adopting" /\ run' = memory
            /\ UNCHANGED <<tree, head, record, carry>>
            /\ told'.excused = IF vouched THEN tree["code"] ELSE told.excused
            /\ told'.waived = told.waived /\ told'.whole = TRUE
            /\ told'.closed = told.closed /\ told'.again = told.again
         \/ /\ pc' = "restoring" /\ record' = NoRecord
            /\ UNCHANGED <<handoff, tree, head, carry, run>>
            /\ told' = GivenUp
<1>1. CASE /\ handoff' = text /\ pc' = "adopting" /\ run' = memory
           /\ told' = [told EXCEPT !.excused = IF vouched THEN tree["code"] ELSE @,
                                   !.whole = TRUE]
           /\ UNCHANGED <<tree, head, record, carry>>
  <2>1. /\ told'.excused = IF vouched THEN tree["code"] ELSE told.excused
        /\ told'.waived = told.waived /\ told'.whole = TRUE
        /\ told'.closed = told.closed /\ told'.again = told.again
    BY <1>1 DEF Shape, Excuses
  <2> QED BY <1>1, <2>1
<1>2. CASE /\ pc' = "restoring" /\ Delete(TRUE) /\ told' = GivenUp
           /\ UNCHANGED <<handoff, tree, head, carry, run>>
  BY <1>2 DEF Delete
<1> QED BY <1>1, <1>2 DEF Confirm

-----------------------------------------------------------------------------
(* While an implementer's handback is on its way to the gate the record on     *)
(* disk is the handback's, with the handoff and HEAD as they are then.         *)

LinkInv ==
  /\ pc \in {"recorded", "checked", "committed", "unnamed", "refreshed"} /\ run.back =>
       record.phase = "handback"
  /\ pc \in {"recorded", "checked", "refreshed"} /\ run.back =>
       record.back = handoff /\ record.backHead = head
  /\ pc \in {"running", "returned"} => ~run.back
  /\ pc \in Waiting /\ run.back => pc = "top" /\ run.pending = "none"
  /\ pc \in {"top", "restoring"} => run.pending # "pause"

LEMMA IdleLinks ==
  ASSUME run' = Idle, pc' \notin {"running", "returned"}
  PROVE  LinkInv'
BY IdleFields DEF LinkInv

LEMMA LinkAtStartup ==
  ASSUME Shape, KindInv, LinkInv, Startup
  PROVE  LinkInv'
<1>1. CASE Start
  BY <1>1, IdleLinks DEF Start, KindInv, MemoryFits
<1>2. CASE Recover
  <2>1. run = Idle /\ pc = "recovering"
    BY <1>2, RecoverCases
  <2>2. CASE \/ NoRecordFound \/ RecordKept \/ RecordInvalid
             \/ Discard(TRUE) \/ StopAndKeep \/ UndoNotes \/ Discard(FALSE)
    <3>1. run' = run /\ pc' \in {"unrecorded", "restoring", "down", "recovering"}
      BY <2>1, <2>2 DEF NoRecordFound, RecordKept, RecordInvalid, Discard, StopAndKeep, UndoNotes
    <3> QED BY <2>1, <3>1, IdleLinks
  <2>3. ASSUME NEW text, NEW memory, TakeUp(text, memory)
        PROVE  LinkInv'
    <3>1. Vouched \in BOOLEAN
      BY DEF Vouched
    <3>2. \/ pc' = "adopting" /\ run' = memory
          \/ pc' = "restoring" /\ run' = run
      BY <2>3, <3>1, ConfirmFields DEF TakeUp
    <3>3. ~memory.back
      BY <2>3 DEF TakeUp
    <3> QED BY <2>1, <3>2, <3>3, IdleLinks DEF LinkInv
  <2> QED BY <1>2, <2>2, <2>3, RecoverCases
<1>3. CASE Adopt
  <2>1. /\ pc = "adopting"
        /\ \/ Ends
           \/ /\ run' = run /\ pc' \in {"top", "paused", "restoring"}
              /\ pc' \in {"top", "restoring"} => run.pending # "pause"
    BY <1>3 DEF Adopt
  <2> QED BY <2>1, IdleLinks DEF Ends, LinkInv, Waiting
<1>4. CASE RestoreLeftovers
  <2>1. pc = "restoring" /\ pc' = "top" /\ \E left : run' = [run EXCEPT !.left = left]
    BY <1>4 DEF RestoreLeftovers
  <2>2. run'.back = run.back /\ run'.pending = run.pending
    BY <2>1 DEF Shape, Runs
  <2> QED BY <2>1, <2>2 DEF LinkInv, Waiting
<1>5. CASE OfferUnrecorded
  <2>1. /\ pc = "unrecorded" /\ pc' = "top"
        /\ run' = run \/ \E left : run' = [run EXCEPT !.left = left]
    BY <1>5 DEF OfferUnrecorded
  <2>2. run'.back = run.back /\ run'.pending = run.pending
    BY <2>1 DEF Shape, Runs
  <2>3. ~run.back /\ run.pending = "none"
    BY <2>1, IdleFields DEF KindInv, MemoryFits
  <2> QED BY <2>1, <2>2, <2>3 DEF LinkInv, Waiting
<1> QED BY <1>1, <1>2, <1>3, <1>4, <1>5 DEF Startup

LEMMA LinkAtTop ==
  ASSUME Shape, KindInv, LinkInv, LoopTop
  PROVE  LinkInv'
<1>1. CASE ClearHandback
  <2>1. /\ pc = "top"
        /\ \/ Ends
           \/ run' = [run EXCEPT !.back = FALSE] /\ pc' = pc
    BY <1>1 DEF ClearHandback
  <2>2. CASE run' = [run EXCEPT !.back = FALSE] /\ pc' = pc
    <3>1. ~run'.back /\ run'.pending = run.pending
      BY <2>2 DEF Shape, Runs
    <3> QED BY <2>1, <2>2, <3>1 DEF LinkInv
  <2> QED BY <2>1, <2>2, IdleLinks DEF Ends
<1>2. CASE StopAtTop
  BY <1>2, IdleLinks DEF StopAtTop, Ends
<1>3. CASE PauseForPerson
  BY <1>3 DEF PauseForPerson, LinkInv
<1>4. CASE Resume
  <2>1. run'.back = run.back /\ run'.pending = "none" /\ pc = "paused" /\ pc' = "top"
    BY <1>4 DEF Resume, Shape, Runs
  <2> QED BY <2>1 DEF LinkInv
<1>5. CASE ResumeHandback
  <2>1. run'.back = run.back /\ pc = "top" /\ run.pending = "handback" /\ pc' = "recorded"
    BY <1>5 DEF ResumeHandback, Shape, Runs
  <2> QED BY <2>1 DEF LinkInv, Waiting
<1>6. ASSUME NEW role \in Roles, Dispatch(role)
      PROVE  LinkInv'
  <2>1. PICK seen \in BOOLEAN, wrote \in BOOLEAN : DispatchedBy(role, seen, wrote)
    BY <1>6, Dispatched
  <2>2. ~run'.back /\ pc' = "running"
    BY <1>6, <2>1, DispatchFields DEF Dispatch
  <2> QED BY <2>2 DEF LinkInv, Waiting
<1> QED BY <1>1, <1>2, <1>3, <1>4, <1>5, <1>6 DEF LoopTop

LEMMA LinkAfter ==
  ASSUME Shape, KindInv, LinkInv, Aftermath
  PROVE  LinkInv'
<1>0. run \in Runs
  BY DEF Shape
<1>1. ASSUME NEW memory \in Runs, Top(memory)
      PROVE  LinkInv'
  BY <1>1, TopFields DEF LinkInv, Waiting
<1>2. CASE OtherReturned
  BY <1>0, <1>1, <1>2, IdleLinks DEF OtherReturned, Ends
<1>3. CASE RecordHandback
  <2>1. /\ pc = "returned" /\ UNCHANGED <<handoff, head>>
        /\ \/ Ends
           \/ pc' = "recorded" /\ run' = run
           \/ /\ pc' = "recorded"
              /\ \E wrote \in BOOLEAN : /\ run' = [run EXCEPT !.back = wrote]
                                        /\ wrote => record' = Handback
    BY <1>3 DEF RecordHandback, Works
  <2>2. CASE pc' = "recorded" /\ run' = run
    BY <2>1, <2>2 DEF LinkInv, Waiting
  <2>3. ASSUME NEW wrote \in BOOLEAN, pc' = "recorded", run' = [run EXCEPT !.back = wrote],
               wrote => record' = Handback
        PROVE  LinkInv'
    <3>1. run'.back = wrote
      BY <2>3 DEF Shape, Runs
    <3>2. wrote => /\ record'.phase = "handback" /\ record'.back = handoff
                   /\ record'.backHead = head
      BY <2>3 DEF Handback, Shape, Records
    <3> QED BY <2>1, <2>3, <3>1, <3>2 DEF LinkInv, Waiting
  <2> QED BY <2>1, <2>2, <2>3, IdleLinks DEF Ends
<1>4. CASE CheckHandback
  <2>1. PICK left :
          /\ carry' = left
          /\ pc = "recorded" /\ UNCHANGED <<record, head>>
          /\ \/ Top([run EXCEPT !.left = left])
             \/ pc' = "checked" /\ run' = [run EXCEPT !.left = left] /\ handoff' = handoff
    BY <1>4 DEF CheckHandback
  <2>2. left \in Lefts
    BY <1>4, <2>1, ShapeAfter DEF Aftermath, Shape
  <2>3. [run EXCEPT !.left = left] \in Runs
    BY <1>0, <2>2 DEF Runs
  <2>4. CASE pc' = "checked" /\ run' = [run EXCEPT !.left = left] /\ handoff' = handoff
    <3>1. run'.back = run.back
      BY <1>0, <2>4 DEF Runs
    <3> QED BY <2>1, <2>4, <3>1 DEF LinkInv, Waiting
  <2> QED BY <1>1, <2>1, <2>3, <2>4
<1>5. CASE CommitWork
  <2>1. /\ pc = "checked" /\ UNCHANGED <<record, run>>
        /\ \/ pc' \in {"committed", "unnamed"}
           \/ pc' = "refreshed" /\ UNCHANGED <<handoff, head>>
    BY <1>5 DEF CommitWork
  <2> QED BY <2>1 DEF LinkInv, Waiting
<1>6. CASE StampAndRefresh
  <2>1. /\ pc \in {"committed", "unnamed"} /\ head' = head
        /\ \/ Ends
           \/ /\ pc' = "refreshed"
              /\ \E left \in Lefts, back \in BOOLEAN :
                   /\ run' = [run EXCEPT !.left = left, !.back = back]
                   /\ back => /\ run.back
                              /\ record' = [record EXCEPT !.back = handoff', !.backHead = head]
    <3>1. PICK wrote \in Works, gone \in Works :
            /\ record' = CASE ~run.back -> record
                           [] run.back /\ wrote ->
                                [record EXCEPT !.back = handoff', !.backHead = head]
                           [] OTHER -> IF gone THEN NoRecord ELSE record
            /\ IF wrote \/ gone
               THEN /\ pc' = "refreshed"
                    /\ run' = [run EXCEPT !.left = Pruned(run.left), !.back = run.back /\ wrote]
                    /\ UNCHANGED told
               ELSE Ends
      BY <1>6 DEF StampAndRefresh
    <3> DEFINE left == Pruned(run.left)
               back == run.back /\ wrote
    <3>2. back \in BOOLEAN
      OBVIOUS
    <3>3. back => run.back /\ record' = [record EXCEPT !.back = handoff', !.backHead = head]
      BY <3>1
    <3>4. \/ Ends
          \/ pc' = "refreshed" /\ run' = [run EXCEPT !.left = left, !.back = back]
      BY <3>1
    <3>5. pc \in {"committed", "unnamed"} /\ head' = head
      BY <1>6 DEF StampAndRefresh
    <3>6. left \in Lefts
      BY <1>0, PrunedShape DEF Runs
    <3> HIDE DEF left, back
    <3> QED BY <3>2, <3>3, <3>4, <3>5, <3>6
  <2>2. ASSUME NEW left \in Lefts, NEW back \in BOOLEAN, pc' = "refreshed",
               run' = [run EXCEPT !.left = left, !.back = back],
               back => /\ run.back
                       /\ record' = [record EXCEPT !.back = handoff', !.backHead = head]
        PROVE  LinkInv'
    <3>1. run'.back = back
      BY <1>0, <2>2 DEF Runs
    <3>2. back => /\ record'.phase = record.phase /\ record'.back = handoff'
                  /\ record'.backHead = head
      BY <2>2 DEF Shape, Records
    <3> QED BY <2>1, <2>2, <3>1, <3>2 DEF LinkInv, Waiting
  <2> QED BY <2>1, <2>2, IdleLinks DEF Ends
<1>7. CASE Gate
  BY <1>0, <1>1, <1>7 DEF Gate
<1> QED BY <1>2, <1>3, <1>4, <1>5, <1>6, <1>7 DEF Aftermath

LEMMA LinkStep ==
  ASSUME Shape, KindInv, LinkInv, [Next]_vars
  PROVE  LinkInv'
<1>1. CASE UNCHANGED vars
  BY <1>1 DEF vars, LinkInv
<1>2. CASE RoleRuns
  BY <1>2, RoleRunsFields DEF LinkInv, Waiting
<1>3. CASE Crash
  BY <1>3, IdleLinks DEF Crash, Ends
<1>4. CASE PersonEdits \/ PersonCommits \/ PersonWrites
  BY <1>4 DEF PersonEdits, PersonCommits, PersonWrites, Person, LinkInv, Waiting
<1> QED BY <1>1, <1>2, <1>3, <1>4, LinkAtStartup, LinkAtTop, LinkAfter DEF Next, Outside

LEMMA LinkHolds == Spec => []LinkInv
<1>1. Init => LinkInv
  BY IdleFields DEF Init, LinkInv, Waiting
<1>2. Shape /\ KindInv /\ LinkInv /\ [Next]_vars => LinkInv'
  BY LinkStep
<1> QED BY <1>1, <1>2, ShapeHolds, PTL DEF Spec

-----------------------------------------------------------------------------
(* A claim nothing excuses is an implementer's: of a cycle that has not reached *)
(* the gate, of a record that brings it back there, or of a recovery that      *)
(* waits to resume the handback.  No record of an audit holds another.         *)

Claimed == handoff.kind \in {"claim", "stamped"}

ClaimHeld ==
  \/ pc \in AtWork /\ run.role = "backend"
  \/ /\ pc \in {"down", "recovering"} /\ record.role = "backend"
     /\ record.phase = "handback" => ~Moved
  \/ pc \in Waiting /\ run.pending \in {"handback", "pause"}

GatedInv ==
  /\ Claimed /\ ~told.waived => ClaimHeld
  /\ record.role = "auditor" /\ record.text.kind # "gated" => told.waived
  /\ pc \in Waiting /\ run.pending = "auditor" /\ Claimed => told.waived

(* What a dispatch and a running role excuse.                                  *)
LEMMA DispatchTold ==
  ASSUME Shape, NEW role \in Roles, NEW seen \in BOOLEAN, NEW wrote \in BOOLEAN,
         DispatchedBy(role, seen, wrote)
  PROVE  /\ told'.excused = (IF seen THEN told.excused ELSE tree["code"])
         /\ told'.waived = WaivedOf(role, wrote) /\ told'.closed = ClosedOf(role)
         /\ told'.again = AgainOf(role) /\ told'.whole = told.whole
         /\ seen \/ role = "backend"
         /\ seen \/ wrote
<1>1. told' = [told EXCEPT !.excused = IF seen THEN @ ELSE tree["code"],
                 !.waived = WaivedOf(role, wrote), !.closed = ClosedOf(role),
                 !.again = AgainOf(role), !.unseen = UnseenOf]
  BY Zenon DEF DispatchedBy
<1>2. (seen \/ role = "backend") /\ (seen \/ wrote)
  BY Zenon DEF DispatchedBy
<1> QED BY <1>1, <1>2 DEF Shape, Excuses

LEMMA RoleRunsTold ==
  ASSUME Shape, RoleRuns
  PROVE  /\ told'.excused = told.excused /\ told'.waived = told.waived
         /\ told'.again = told.again
         /\ ~RoleCommits /\ ~RoleWrites => told'.closed = told.closed
         /\ ~RoleReturns /\ ~RoleWrites => told'.whole = told.whole
<1>1. CASE RoleEdits
  <2> DEFINE unseen == IF tree'["guard"] # run.guard THEN "yes" ELSE "no"
  <2>1. told' = told \/ told' = [told EXCEPT !.unseen = unseen]
    BY <1>1 DEF RoleEdits
  <2> HIDE DEF unseen
  <2> QED BY <2>1 DEF Shape, Excuses
<1>2. CASE RoleWrites
  <2> DEFINE closed == told.closed /\ ~(run.role = "auditor" /\ handoff'.kind = "approved")
  <2>1. told' = [told EXCEPT !.closed = closed, !.whole = FALSE]
    BY <1>2 DEF RoleWrites
  <2> HIDE DEF closed
  <2> QED BY <1>2, <2>1 DEF Shape, Excuses
<1>3. CASE RoleCommits
  BY <1>3 DEF RoleCommits, Shape, Excuses
<1>4. CASE RoleReturns
  BY <1>4 DEF RoleReturns, Shape, Excuses
<1> QED BY <1>1, <1>2, <1>3, <1>4 DEF RoleRuns

LEMMA EscalateTold ==
  ASSUME Shape, Escalate
  PROVE  /\ told'.excused = told.excused /\ told'.waived = told.waived
         /\ told'.again = told.again /\ told'.closed = told.closed /\ told'.whole = TRUE
         /\ handoff'.kind = "user"
BY DEF Escalate, Shape, Excuses, Text

(* What does not touch the record: it stays, goes, or what it says of the role *)
(* and the text does.                                                          *)
LEMMA RecordGated ==
  ASSUME GatedInv, told.waived => told'.waived,
         record' = record \/ record' = NoRecord
  PROVE  record'.role = "auditor" /\ record'.text.kind # "gated" => told'.waived
BY DEF GatedInv, NoRecord

(* The end of a run: what the record does not hold is excused.                 *)
LEMMA EndsGated ==
  ASSUME Shape, KindInv, LinkInv, GatedInv, Ends, UNCHANGED <<handoff, head>>,
         \/ record' = record
         \/ pc \in Waiting \cup {"committed", "unnamed"} /\ record' = NoRecord
  PROVE  GatedInv'
<1>1. /\ pc' = "down"
      /\ told'.waived = (told.waived \/ Unrecorded \/ run.pending \in {"handback", "pause"})
  BY EndsFields
<1>2. record'.role = "auditor" /\ record'.text.kind # "gated" => told'.waived
  BY <1>1, RecordGated
<1>3. ASSUME Claimed, ~told'.waived
      PROVE  record' = record /\ record.role = "backend"
             /\ (record.phase = "handback" => ~Moved)
  <2>1. ClaimHeld /\ ~Unrecorded /\ run.pending \notin {"handback", "pause"}
    BY <1>1, <1>3 DEF GatedInv
  <2>2. record' = record
    BY <2>1 DEF ClaimHeld, Unrecorded, AtWork, Waiting
  <2>3. CASE pc \in {"down", "recovering"}
    BY <2>1, <2>2, <2>3 DEF ClaimHeld, AtWork, Waiting
  <2>4. CASE pc \in {"running", "returned"}
    <3>1. run.written /\ run.role = "backend"
      BY <2>1, <2>4 DEF Unrecorded, ClaimHeld, AtWork, Waiting
    <3>2. record.role = "backend" /\ record.phase = "dispatch"
      BY <2>4, <3>1 DEF KindInv, WorkFits
    <3> QED BY <2>2, <3>2
  <2>5. CASE pc \in {"recorded", "checked", "refreshed"}
    <3>1. run.back
      BY <2>1, <2>5 DEF Unrecorded
    <3>2. record.phase = "handback" /\ ~Moved
      BY <2>5, <3>1 DEF LinkInv, Moved
    <3>3. record.role = "backend"
      BY <3>2 DEF KindInv, RecordFits
    <3> QED BY <2>2, <3>2, <3>3
  <2> QED BY <2>1, <2>3, <2>4, <2>5 DEF ClaimHeld, Unrecorded, AtWork, Waiting
<1>4. Claimed' /\ ~told'.waived => ClaimHeld'
  BY <1>1, <1>3 DEF Claimed, ClaimHeld, Moved
<1> QED BY <1>1, <1>2, <1>4 DEF GatedInv, Waiting

LEMMA GatedAtStartup ==
  ASSUME Shape, KindInv, LinkInv, GatedInv, Startup
  PROVE  GatedInv'
<1>1. CASE Start
  BY <1>1 DEF Start, GatedInv, ClaimHeld, Claimed, Moved, AtWork, Waiting
<1>2. CASE Recover
  <2>1. run = Idle /\ pc = "recovering"
    BY <1>2, RecoverCases
  <2>2. Claimed /\ ~told.waived => record.role = "backend"
    BY <2>1 DEF GatedInv, ClaimHeld, AtWork, Waiting
  <2>3. CASE NoRecordFound
    BY <2>1, <2>2, <2>3, IdleFields DEF NoRecordFound, GatedInv, Claimed
  <2>4. CASE RecordKept \/ RecordInvalid
    <3>1. told'.waived
      BY <2>4, GivenUpFields DEF RecordKept, RecordInvalid
    <3> QED BY <3>1 DEF GatedInv
  <2>5. ASSUME NEW excused \in BOOLEAN, Discard(excused),
               excused \/ (Claimed /\ ~told.waived => FALSE)
        PROVE  GatedInv'
    <3>1. /\ UNCHANGED <<handoff, head, run>> /\ (told.waived => told'.waived)
          /\ \/ /\ pc' = "restoring" /\ record' = NoRecord
                /\ excused => told'.waived
             \/ pc' = "down" /\ record' = record
      BY <2>5, DiscardFields
    <3>2. record'.role = "auditor" /\ record'.text.kind # "gated" => told'.waived
      BY <3>1, RecordGated
    <3>3. Claimed' /\ ~told'.waived => ClaimHeld'
      BY <2>1, <2>5, <3>1 DEF GatedInv, ClaimHeld, Claimed, Moved, AtWork, Waiting
    <3>4. run'.pending = "none"
      BY <2>1, <3>1, IdleFields
    <3> QED BY <3>2, <3>3, <3>4 DEF GatedInv
  <2>6. CASE StopAndKeep \/ UndoNotes
    <3>1. /\ UNCHANGED <<handoff, record, told, run>> /\ pc' \in {"down", "recovering"}
          /\ head' = head \/ record.role = "planner"
      BY <2>1, <2>6 DEF StopAndKeep, UndoNotes
    <3> QED BY <2>1, <3>1, IdleFields DEF GatedInv, ClaimHeld, Claimed, Moved, AtWork, Waiting
  <2>7. CASE Settled /\ Discard(FALSE)
    <3>1. Claimed /\ ~told.waived => FALSE
      <4>1. SUFFICES ASSUME Claimed, ~told.waived PROVE FALSE
        OBVIOUS
      <4>2. record.role = "backend" /\ (record.phase = "handback" => ~Moved)
        BY <2>1, <4>1 DEF GatedInv, ClaimHeld, AtWork, Waiting
      <4>3. handoff = record.text
        BY <2>7, <4>2 DEF Settled
      <4>4. record.text.kind = "assign"
        BY <4>2 DEF KindInv, RecordFits, Fits, KindsOf
      <4> QED BY <4>1, <4>3, <4>4 DEF Claimed
    <3> QED BY <2>5, <2>7, <3>1
  <2>8. ASSUME NEW text, NEW memory, TakeUp(text, memory)
        PROVE  GatedInv'
    <3>1. Vouched \in BOOLEAN
      BY DEF Vouched
    <3>2. Confirm(text, memory, Vouched) /\ Taken(text, memory)
      BY <2>8 DEF TakeUp
    <3>3. CASE /\ handoff' = text /\ pc' = "adopting" /\ run' = memory
               /\ record' = record /\ told'.waived = told.waived
      <4>1. record'.role = "auditor" /\ record'.text.kind # "gated" => told'.waived
        BY <3>3, RecordGated
      <4>2. Fits(record.role, record.text)
        BY <3>2 DEF Taken, KindInv, RecordFits
      <4>3. CASE record.role = "backend" /\ record.phase = "handback"
        BY <3>2, <3>3, <4>1, <4>3 DEF Taken, GatedInv, ClaimHeld, Waiting
      <4>4. CASE text = record.text /\ record.role = "auditor" /\ memory.pending = "auditor"
        <5>1. text.kind = "gated" \/ told'.waived
          BY <3>3, <4>1, <4>4
        <5> QED BY <3>3, <4>1, <5>1 DEF GatedInv, Claimed
      <4>5. CASE text = record.text /\ record.role \in {"backend", "planner", "finalizer"}
        <5>1. text.kind \in {"assign", "done", "approved"}
          BY <4>2, <4>5 DEF Fits, KindsOf
        <5> QED BY <3>3, <4>1, <5>1 DEF GatedInv, Claimed
      <4> QED BY <3>2, <4>3, <4>4, <4>5 DEF Taken
    <3>4. CASE told' = GivenUp
      BY <3>4, GivenUpFields DEF GatedInv
    <3> QED BY <3>1, <3>2, <3>3, <3>4, ConfirmFields
  <2> QED BY <1>2, <2>3, <2>4, <2>5, <2>6, <2>7, <2>8, RecoverCases
<1>3. CASE Adopt
  <2>1. PICK ok \in BOOLEAN :
          /\ pc = "adopting" /\ record' = IF ok THEN NoRecord ELSE record
          /\ UNCHANGED <<handoff, head>>
          /\ IF ~ok THEN Ends
             ELSE /\ pc' = CASE run.pending \in {"dispatch", "handback"} -> "top"
                           [] run.pending = "pause" -> "paused"
                           [] OTHER -> "restoring"
                  /\ UNCHANGED <<run, told>>
    BY <1>3 DEF Adopt, Delete, Works
  <2>2. CASE ~ok
    BY <2>1, <2>2, EndsGated DEF Waiting
  <2>3. CASE ok
    <3>1. pc' \in {"top", "paused", "restoring"} /\ record' = NoRecord /\ UNCHANGED <<run, told>>
      BY <2>1, <2>3
    <3>2. record'.role = "auditor" /\ record'.text.kind # "gated" => told'.waived
      BY <3>1, RecordGated
    <3> QED BY <2>1, <3>1, <3>2 DEF GatedInv, ClaimHeld, Claimed, AtWork, Waiting
  <2> QED BY <2>2, <2>3
<1>4. CASE RestoreLeftovers
  <2>1. /\ pc = "restoring" /\ pc' = "top" /\ UNCHANGED <<handoff, head, record>>
        /\ \E left, excused : /\ run' = [run EXCEPT !.left = left]
                              /\ told' = [told EXCEPT !.excused = excused]
    BY <1>4 DEF RestoreLeftovers
  <2>2. run'.pending = run.pending /\ told'.waived = told.waived
    BY <2>1 DEF Shape, Runs, Excuses
  <2> QED BY <2>1, <2>2 DEF GatedInv, ClaimHeld, Claimed, AtWork, Waiting
<1>5. CASE OfferUnrecorded
  <2>1. /\ pc = "unrecorded" /\ UNCHANGED <<handoff, record>>
        /\ run' = run \/ \E left : run' = [run EXCEPT !.left = left]
        /\ told' = told \/ \E excused : told' = [told EXCEPT !.excused = excused]
    BY <1>5 DEF OfferUnrecorded
  <2>2. run'.pending = "none" /\ told'.waived = told.waived
    BY <2>1, IdleFields DEF KindInv, MemoryFits, Shape, Runs, Excuses
  <2> QED BY <2>1, <2>2 DEF GatedInv, ClaimHeld, Claimed, AtWork, Waiting
<1> QED BY <1>1, <1>2, <1>3, <1>4, <1>5 DEF Startup

(* The auditor is not sent to a claim that nothing excuses.                    *)
LEMMA AuditorWaits ==
  ASSUME Shape, KindInv, LinkInv, GatedInv, Dispatch("auditor"), Claimed
  PROVE  told.waived
<1>1. pc = "top" /\ run.pending # "handback"
  BY DEF Dispatch
<1> QED BY <1>1 DEF LinkInv, GatedInv, ClaimHeld, AtWork, Waiting

LEMMA GatedAtTop ==
  ASSUME Shape, KindInv, LinkInv, GatedInv, LoopTop
  PROVE  GatedInv'
<1>1. CASE ClearHandback
  <2>1. /\ pc = "top" /\ UNCHANGED <<handoff, head>>
        /\ record' = record \/ record' = NoRecord
        /\ \/ Ends
           \/ run' = [run EXCEPT !.back = FALSE] /\ UNCHANGED <<pc, told>>
    BY <1>1 DEF ClearHandback, Delete
  <2>2. CASE run' = [run EXCEPT !.back = FALSE] /\ UNCHANGED <<pc, told>>
    <3>1. run'.pending = run.pending
      BY <2>2 DEF Shape, Runs
    <3>2. record'.role = "auditor" /\ record'.text.kind # "gated" => told'.waived
      BY <2>1, <2>2, RecordGated
    <3> QED BY <2>1, <2>2, <3>1, <3>2 DEF GatedInv, ClaimHeld, Claimed, AtWork, Waiting
  <2> QED BY <2>1, <2>2, EndsGated DEF Waiting
<1>2. CASE StopAtTop
  BY <1>2, EndsGated DEF StopAtTop
<1>3. CASE PauseForPerson
  BY <1>3 DEF PauseForPerson, GatedInv, ClaimHeld, Claimed, AtWork, Waiting
<1>4. CASE Resume
  <2>1. told'.waived
    BY <1>4 DEF Resume, Shape, Excuses
  <2> QED BY <2>1 DEF GatedInv
<1>5. CASE ResumeHandback
  <2>1. /\ run'.role = "backend" /\ pc' = "recorded"
        /\ UNCHANGED <<record, told>>
    BY <1>5 DEF ResumeHandback, Shape, Runs
  <2> QED BY <2>1 DEF GatedInv, ClaimHeld, AtWork, Waiting
<1>6. ASSUME NEW role \in Roles, Dispatch(role)
      PROVE  GatedInv'
  <2>1. PICK seen \in BOOLEAN, wrote \in BOOLEAN : DispatchedBy(role, seen, wrote)
    BY <1>6, Dispatched
  <2>2. /\ Fits(role, handoff) /\ pc' = "running" /\ handoff' = handoff
        /\ run'.role = role
        /\ wrote => record'.role = role /\ record'.text = handoff
        /\ ~wrote => record' = record
    <3>1. handoff' = handoff
      BY <1>6 DEF Dispatch
    <3>2. Fits(role, handoff) /\ pc' = "running"
      BY <1>6, DispatchFits
    <3> QED BY <2>1, <3>1, <3>2, DispatchFields
  <2>3. told'.waived = WaivedOf(role, wrote)
    BY <2>1, DispatchTold
  <2>4. role = "auditor" /\ Claimed => told'.waived
    <3>1. role = "auditor" /\ Claimed => told.waived
      BY <1>6, AuditorWaits
    <3> QED BY <2>3, <3>1 DEF WaivedOf
  <2>5. Claimed /\ ~told'.waived => role = "backend"
    BY <2>2, <2>4 DEF Fits, KindsOf, Roles, Claimed
  <2>6. record'.role = "auditor" /\ record'.text.kind # "gated" => told'.waived
    <3>1. CASE wrote
      BY <2>2, <2>4, <3>1 DEF Fits, KindsOf, Claimed
    <3>2. CASE ~wrote
      BY <2>2, <2>3, <3>2 DEF WaivedOf
    <3> QED BY <3>1, <3>2
  <2> QED BY <2>2, <2>5, <2>6 DEF GatedInv, ClaimHeld, Claimed, AtWork, Waiting
<1> QED BY <1>1, <1>2, <1>3, <1>4, <1>5, <1>6 DEF LoopTop

LEMMA GatedAtWork ==
  ASSUME Shape, KindInv, LinkInv, GatedInv, RoleRuns
  PROVE  GatedInv'
<1>1. /\ pc = "running" /\ pc' \in {"running", "returned"} /\ record' = record
      /\ run'.role = run.role /\ told'.waived = told.waived
  BY RoleRunsFields, RoleRunsTold
<1>2. run.role \in Roles
  BY <1>1, RunningShape DEF AtWork
<1>3. Claimed' /\ ~told.waived => run.role = "backend"
  <2>1. CASE RoleWrites
    <3>1. \E s : \E k \in Outcomes[run.role] \cup {"half"} : handoff' = Text(k, s)
      BY <2>1 DEF RoleWrites
    <3> QED BY <1>2, <3>1 DEF Outcomes, Roles, Text, Claimed
  <2>2. CASE ~RoleWrites
    <3>1. handoff' = handoff
      BY <2>2 DEF RoleRuns, RoleEdits, RoleCommits, RoleReturns
    <3> QED BY <1>1, <3>1 DEF GatedInv, ClaimHeld, Claimed, AtWork, Waiting
  <2> QED BY <2>1, <2>2
<1> QED BY <1>1, <1>3 DEF GatedInv, ClaimHeld, AtWork, Waiting

LEMMA GatedAfter ==
  ASSUME Shape, KindInv, LinkInv, GatedInv, Aftermath
  PROVE  GatedInv'
<1>0. run \in Runs
  BY DEF Shape
\* The cycle ends with another handoff, or with the claim excused.
<1>1. ASSUME NEW memory \in Runs, Top(memory),
             record' = record \/ record' = NoRecord,
             told.waived => told'.waived, ~Claimed' \/ told'.waived
      PROVE  GatedInv'
  <2>1. record'.role = "auditor" /\ record'.text.kind # "gated" => told'.waived
    BY <1>1, RecordGated
  <2> QED BY <1>1, <2>1 DEF GatedInv
<1>2. CASE OtherReturned
  <2> DEFINE again == told.again \/ run.failed
  <2>1. /\ pc = "returned" /\ run.role # "backend"
        /\ record' = record \/ record' = NoRecord
        /\ \/ Ends /\ UNCHANGED <<handoff, head, record>>
           \/ Top(run) /\ Escalate
           \/ Top(run) /\ told' = [told EXCEPT !.again = again] /\ handoff' = handoff
    BY <1>2 DEF OtherReturned, Delete
  <2> HIDE DEF again
  <2>2. Claimed => told.waived
    BY <2>1 DEF GatedInv, ClaimHeld, AtWork, Waiting
  <2>3. CASE Ends /\ UNCHANGED <<handoff, head, record>>
    BY <2>3, EndsGated
  <2>4. CASE Top(run) /\ Escalate
    <3>1. ~Claimed' /\ told'.waived = told.waived
      BY <2>4, EscalateTold DEF Claimed
    <3> QED BY <1>0, <1>1, <2>1, <2>4, <3>1
  <2>5. CASE Top(run) /\ told' = [told EXCEPT !.again = again] /\ handoff' = handoff
    <3>1. told'.waived = told.waived
      BY <2>5 DEF Shape, Excuses
    <3>2. Claimed' = Claimed
      BY <2>5 DEF Claimed
    <3> QED BY <1>0, <1>1, <2>1, <2>2, <2>5, <3>1, <3>2
  <2> QED BY <2>1, <2>3, <2>4, <2>5
<1>3. CASE RecordHandback
  <2>1. /\ pc = "returned" /\ run.role = "backend" /\ UNCHANGED <<handoff, head>>
        /\ \/ record' = record \/ record' = NoRecord
           \/ record' = Handback /\ run.written
        /\ \/ Ends /\ record' = record
           \/ /\ pc' = "recorded" /\ told' = told
              /\ run' = run \/ \E back : run' = [run EXCEPT !.back = back]
    BY <1>3 DEF RecordHandback, Delete
  <2>2. CASE Ends /\ record' = record
    BY <2>1, <2>2, EndsGated
  <2>3. CASE /\ pc' = "recorded" /\ told' = told
             /\ run' = run \/ \E back : run' = [run EXCEPT !.back = back]
    <3>1. run'.role = "backend"
      BY <2>1, <2>3 DEF Shape, Runs
    <3>2. record'.role = "auditor" /\ record'.text.kind # "gated" => told'.waived
      <4>1. CASE record' = Handback /\ run.written
        <5>1. record.role = "backend"
          BY <2>1, <4>1 DEF KindInv, WorkFits
        <5>2. record'.role = "backend"
          BY <4>1, <5>1 DEF Handback, Shape, Records
        <5> QED BY <5>2
      <4>2. CASE record' = record \/ record' = NoRecord
        BY <2>3, <4>2, RecordGated
      <4> QED BY <2>1, <4>1, <4>2
    <3> QED BY <2>3, <3>1, <3>2 DEF GatedInv, ClaimHeld, AtWork, Waiting
  <2> QED BY <2>1, <2>2, <2>3
<1>4. CASE CheckHandback
  <2> DEFINE waived == told.waived \/ run.failed
             listed(left) == [run EXCEPT !.left = left]
  <2>1. PICK left :
          /\ carry' = left
          /\ pc = "recorded" /\ UNCHANGED <<head, record>>
          /\ \/ Escalate /\ Top(listed(left))
             \/ pc' = "checked" /\ run' = listed(left) /\ told' = told
             \/ /\ Top(listed(left)) /\ told' = [told EXCEPT !.waived = waived]
                /\ run.failed \/ ~Claimed
                /\ handoff' = handoff
    BY <1>4 DEF CheckHandback, Claimed
  <2>2. left \in Lefts
    BY <1>4, <2>1, ShapeAfter DEF Aftermath, Shape
  <2>3. listed(left) \in Runs /\ listed(left).role = run.role
    BY <1>0, <2>2 DEF Runs
  <2> HIDE DEF listed, waived
  <2>4. CASE Escalate /\ Top(listed(left))
    <3>1. ~Claimed' /\ told'.waived = told.waived
      BY <2>4, EscalateTold DEF Claimed
    <3> QED BY <1>1, <2>1, <2>3, <2>4, <3>1
  <2>5. CASE pc' = "checked" /\ run' = listed(left) /\ told' = told
    <3>1. run'.role = "backend"
      BY <2>1, <2>3, <2>5 DEF KindInv, WorkFits, AtWork
    <3> QED BY <2>1, <2>5, <3>1 DEF GatedInv, ClaimHeld, AtWork, Waiting
  <2>6. CASE /\ Top(listed(left)) /\ told' = [told EXCEPT !.waived = waived]
             /\ run.failed \/ ~Claimed
             /\ handoff' = handoff
    <3>1. told'.waived = waived
      BY <2>6 DEF Shape, Excuses
    <3>2. Claimed' = Claimed
      BY <2>6 DEF Claimed
    <3>3. (told.waived => told'.waived) /\ (~Claimed' \/ told'.waived)
      BY <2>6, <3>1, <3>2 DEF waived
    <3> QED BY <1>1, <2>1, <2>3, <2>6, <3>3
  <2> QED BY <2>1, <2>4, <2>5, <2>6
<1>5. CASE CommitWork
  <2>1. /\ pc = "checked" /\ pc' \in {"committed", "unnamed", "refreshed"}
        /\ UNCHANGED <<record, run>>
        /\ told' = told \/ told' = [told EXCEPT !.excused = <<>>]
    BY <1>5 DEF CommitWork
  <2>2. told'.waived = told.waived
    BY <2>1 DEF Shape, Excuses
  <2>3. run.role = "backend"
    BY <2>1 DEF KindInv, WorkFits, AtWork
  <2> QED BY <2>1, <2>2, <2>3 DEF GatedInv, ClaimHeld, AtWork, Waiting
<1>6. CASE StampAndRefresh
  <2>1. /\ pc \in {"committed", "unnamed"} /\ head' = head
        /\ record' \in {record, NoRecord, [record EXCEPT !.back = handoff', !.backHead = head]}
        /\ \/ Ends
           \/ /\ pc' = "refreshed" /\ told' = told
              /\ \E left, back : run' = [run EXCEPT !.left = left, !.back = back]
    BY <1>6 DEF StampAndRefresh
  <2>2. run.role = "backend"
    BY <2>1 DEF KindInv, WorkFits, AtWork
  <2>3. record'.role = "auditor" /\ record'.text.kind # "gated" =>
          record.role = "auditor" /\ record.text.kind # "gated"
    <3>1. CASE record' = [record EXCEPT !.back = handoff', !.backHead = head]
      BY <3>1 DEF Shape, Records
    <3>2. CASE record' \in {record, NoRecord}
      BY <3>2 DEF NoRecord
    <3> QED BY <2>1, <3>1, <3>2
  <2>4. CASE Ends
    <3>1. told'.waived
      BY <2>1, <2>4, EndsFields DEF Unrecorded
    <3> QED BY <3>1 DEF GatedInv
  <2>5. CASE /\ pc' = "refreshed" /\ told' = told
             /\ \E left, back : run' = [run EXCEPT !.left = left, !.back = back]
    <3>1. run'.role = "backend"
      BY <1>0, <2>2, <2>5 DEF Runs
    <3> QED BY <2>3, <2>5, <3>1 DEF GatedInv, ClaimHeld, AtWork, Waiting
  <2> QED BY <2>1, <2>4, <2>5
<1>7. CASE Gate
  <2>1. /\ UNCHANGED <<record, told>> /\ Top(run)
        /\ \E k \in {"gated", "assign"} : handoff' = [handoff EXCEPT !.kind = k]
    BY <1>7 DEF Gate
  <2>2. ~Claimed'
    BY <2>1 DEF Claimed, Shape, Texts
  <2> QED BY <1>0, <1>1, <2>1, <2>2
<1> QED BY <1>2, <1>3, <1>4, <1>5, <1>6, <1>7 DEF Aftermath

LEMMA GatedStep ==
  ASSUME Shape, KindInv, LinkInv, GatedInv, [Next]_vars
  PROVE  GatedInv'
<1>1. CASE UNCHANGED vars
  BY <1>1 DEF vars, GatedInv, ClaimHeld, Claimed, Moved
<1>2. CASE Crash
  BY <1>2, EndsGated DEF Crash
<1>3. CASE PersonEdits
  <2>1. PICK f \in Files : told' = [told EXCEPT !.unseen = IF f = "guard" THEN "no" ELSE @]
    BY <1>3, Zenon DEF PersonEdits, Dirty, Files
  <2> DEFINE unseen == IF f = "guard" THEN "no" ELSE told.unseen
  <2>2. told' = [told EXCEPT !.unseen = unseen]
    BY <2>1
  <2> HIDE DEF unseen
  <2>3. told'.waived = told.waived
    BY <2>2 DEF Shape, Excuses
  <2>4. UNCHANGED <<handoff, head, record, pc, run>>
    BY <1>3 DEF PersonEdits, Person
  <2> QED BY <2>3, <2>4 DEF GatedInv, ClaimHeld, Claimed, Moved
<1>4. CASE PersonCommits \/ PersonWrites
  <2>1. told'.waived
    BY <1>4 DEF PersonCommits, PersonWrites, Shape, Excuses
  <2> QED BY <2>1 DEF GatedInv
<1> QED BY <1>1, <1>2, <1>3, <1>4, GatedAtStartup, GatedAtTop, GatedAtWork, GatedAfter
        DEF Next, Outside

LEMMA GatedHolds == Spec => []GatedInv
<1>1. Init => GatedInv
  BY DEF Init, GatedInv, Claimed, NoRecord, Waiting
<1>2. Shape /\ KindInv /\ LinkInv /\ GatedInv /\ [Next]_vars => GatedInv'
  BY GatedStep
<1> QED BY <1>1, <1>2, ShapeHolds, LinkHolds, PTL DEF Spec

(* A claim reaches the auditor only past the work-claim gate: whenever the      *)
(* dispatcher ends before the gate the record on disk is the implementer's,     *)
(* with the text and HEAD handed back, or the claim is excused.                 *)
THEOREM ClaimsAreGated == Spec => HandbackGated
<1>1. ASSUME Shape, KindInv, LinkInv, GatedInv, Dispatch("auditor"),
             handoff.kind \in {"claim", "stamped"}
      PROVE  told.waived
  BY <1>1, AuditorWaits DEF Claimed
<1>2. Shape /\ KindInv /\ LinkInv /\ GatedInv /\ [Next]_vars =>
        [Dispatch("auditor") /\ handoff.kind \in {"claim", "stamped"} => told.waived]_vars
  BY <1>1
<1> QED BY <1>2, ShapeHolds, LinkHolds, GatedHolds, PTL DEF Spec, HandbackGated

-----------------------------------------------------------------------------
(* An approval no audit finished is that of an audit that runs, or of one whose *)
(* record restores the handoff.                                                *)

WholeInv ==
  ~told.whole =>
    \/ handoff.kind # "approved"
    \/ pc = "running" /\ run.role = "auditor"
    \/ pc \in {"down", "recovering"} /\ record.role = "auditor"

(* What a person's edit of a file excuses.                                     *)
LEMMA PersonEditsFields ==
  ASSUME Shape, PersonEdits
  PROVE  /\ UNCHANGED <<handoff, head, record, carry, pc, run>>
         /\ told'.excused = told.excused /\ told'.waived = told.waived
         /\ told'.again = told.again /\ told'.closed = told.closed
         /\ told'.whole = told.whole /\ pc \in {"down", "paused"}
<1>1. PICK f \in Files : told' = [told EXCEPT !.unseen = IF f = "guard" THEN "no" ELSE @]
  BY Zenon DEF PersonEdits, Dirty, Files
<1> DEFINE unseen == IF f = "guard" THEN "no" ELSE told.unseen
<1>2. told' = [told EXCEPT !.unseen = unseen]
  BY <1>1
<1> HIDE DEF unseen
<1>3. UNCHANGED <<handoff, head, record, carry, pc, run>> /\ pc \in {"down", "paused"}
  BY DEF PersonEdits, Person
<1> QED BY <1>2, <1>3 DEF Shape, Excuses

(* The record is read or dropped, never changed, by what ends a run.           *)
LEMMA EndsWhole ==
  ASSUME Shape, KindInv, WholeInv, Ends, UNCHANGED handoff,
         record' = record \/ pc \notin {"down", "recovering", "running", "returned"}
  PROVE  WholeInv'
<1>1. /\ pc' = "down"
      /\ told'.whole = (told.whole \/ Unrecorded \/ run.pending = "auditor")
  BY EndsFields
<1>2. ASSUME ~told'.whole, handoff.kind = "approved"
      PROVE  record'.role = "auditor"
  <2>1. ~told.whole /\ ~Unrecorded
    BY <1>1, <1>2
  <2>2. CASE pc = "running" /\ run.role = "auditor"
    BY <2>1, <2>2 DEF Unrecorded, KindInv, WorkFits
  <2>3. CASE pc \in {"down", "recovering"} /\ record.role = "auditor"
    BY <2>3
  <2> QED BY <1>2, <2>1, <2>2, <2>3 DEF WholeInv
<1> QED BY <1>1, <1>2 DEF WholeInv

LEMMA WholeStep ==
  ASSUME Shape, KindInv, WholeInv, [Next]_vars
  PROVE  WholeInv'
\* Away from a running audit and its recovery the handoff approves nothing.
<1>0. ASSUME pc \notin {"down", "recovering", "running"}, told.whole => told'.whole,
             handoff' = handoff \/ handoff'.kind # "approved"
      PROVE  WholeInv'
  BY <1>0 DEF WholeInv
<1>1. CASE UNCHANGED vars
  BY <1>1 DEF vars, WholeInv
<1>2. CASE Start
  BY <1>2 DEF Start, WholeInv
<1>3. CASE Recover
  <2>1. run = Idle /\ pc = "recovering"
    BY <1>3, RecoverCases
  <2>2. CASE NoRecordFound
    BY <2>2 DEF NoRecordFound, WholeInv
  <2>3. CASE RecordKept \/ RecordInvalid
    BY <2>3, GivenUpFields DEF RecordKept, RecordInvalid, WholeInv
  <2>4. ASSUME NEW excused \in BOOLEAN, Discard(excused),
               excused \/ (~told.whole => handoff.kind # "approved")
        PROVE  WholeInv'
    <3>1. /\ handoff' = handoff /\ (told.whole => told'.whole)
          /\ \/ pc' = "restoring" /\ (excused => told'.whole)
             \/ pc' = "down" /\ record' = record
      BY <2>4, DiscardFields
    <3> QED BY <2>1, <2>4, <3>1 DEF WholeInv
  <2>5. CASE StopAndKeep \/ UndoNotes
    <3>1. UNCHANGED <<handoff, record, told>> /\ pc' \in {"down", "recovering"}
      BY <2>1, <2>5 DEF StopAndKeep, UndoNotes
    <3> QED BY <2>1, <3>1 DEF WholeInv
  <2>6. CASE Settled /\ Discard(FALSE)
    <3>1. ASSUME ~told.whole, handoff.kind = "approved"
          PROVE  FALSE
      <4>1. record.role = "auditor"
        BY <2>1, <3>1 DEF WholeInv
      <4>2. record.phase # "handback"
        BY <4>1 DEF KindInv, RecordFits
      <4>3. handoff = record.text
        BY <2>6, <4>1, <4>2 DEF Settled
      <4>4. handoff.kind \in {"claim", "stamped", "gated"}
        BY <4>1, <4>3 DEF KindInv, RecordFits, Fits, KindsOf
      <4> QED BY <3>1, <4>4
    <3> QED BY <2>4, <2>6, <3>1
  <2>7. ASSUME NEW text, NEW memory, TakeUp(text, memory)
        PROVE  WholeInv'
    <3>1. Vouched \in BOOLEAN /\ Confirm(text, memory, Vouched)
      BY <2>7 DEF Vouched, TakeUp
    <3>2. told'.whole
      BY <3>1, ConfirmFields, GivenUpFields
    <3> QED BY <3>2 DEF WholeInv
  <2> QED BY <1>3, <2>2, <2>3, <2>4, <2>5, <2>6, <2>7, RecoverCases
<1>4. CASE Adopt
  <2>1. /\ pc = "adopting" /\ handoff' = handoff
        /\ Ends \/ told' = told
    BY <1>4 DEF Adopt
  <2> QED BY <1>0, <2>1, EndsWhole
<1>5. CASE RestoreLeftovers \/ OfferUnrecorded
  <2>1. /\ pc \in {"restoring", "unrecorded"} /\ handoff' = handoff
        /\ told' = told \/ \E excused : told' = [told EXCEPT !.excused = excused]
    BY <1>5 DEF RestoreLeftovers, OfferUnrecorded
  <2>2. told'.whole = told.whole
    BY <2>1 DEF Shape, Excuses
  <2> QED BY <1>0, <2>1, <2>2
<1>6. CASE LoopTop
  <2>1. pc \in {"top", "paused"} /\ handoff' = handoff
    BY <1>6 DEF LoopTop, ClearHandback, StopAtTop, PauseForPerson, Resume, ResumeHandback,
                Dispatch
  <2>2. CASE Ends
    BY <2>1, <2>2, EndsWhole
  <2>3. CASE ~Ends
    <3>0. ASSUME told'.whole = told.whole
          PROVE  WholeInv'
      BY <1>0, <2>1, <3>0
    <3>1. ASSUME NEW role \in Roles, Dispatch(role)
          PROVE  WholeInv'
      BY <3>0, <3>1, Dispatched, DispatchTold
    <3>2. CASE Resume
      <4>1. told' = [told EXCEPT !.waived = TRUE, !.again = TRUE]
        BY <3>2 DEF Resume
      <4> QED BY <3>0, <4>1 DEF Shape, Excuses
    <3>3. CASE ClearHandback
      BY <2>3, <3>0, <3>3 DEF ClearHandback
    <3>4. CASE PauseForPerson \/ ResumeHandback
      BY <3>0, <3>4 DEF PauseForPerson, ResumeHandback
    <3>5. CASE StopAtTop
      BY <2>3, <3>5 DEF StopAtTop
    <3> QED BY <1>6, <3>1, <3>2, <3>3, <3>4, <3>5 DEF LoopTop
  <2> QED BY <2>2, <2>3
<1>7. CASE RoleRuns
  <2>1. /\ pc = "running" /\ pc' \in {"running", "returned"} /\ run'.role = run.role
        /\ ~RoleReturns /\ ~RoleWrites => told'.whole = told.whole
    BY <1>7, RoleRunsFields, RoleRunsTold
  <2>2. run.role \in Roles
    BY <2>1, RunningShape DEF AtWork
  <2>3. CASE RoleWrites
    <3>1. \E s : \E k \in Outcomes[run.role] \cup {"half"} : handoff' = Text(k, s)
      BY <2>3 DEF RoleWrites
    <3>2. handoff'.kind = "approved" => run.role = "auditor"
      BY <2>2, <3>1 DEF Outcomes, Roles, Text
    <3>3. pc' = "running"
      BY <2>1, <2>3 DEF RoleWrites
    <3> QED BY <2>1, <3>2, <3>3 DEF WholeInv
  <2>4. CASE RoleReturns
    BY <2>4 DEF RoleReturns, Shape, Excuses, WholeInv
  <2>5. CASE RoleEdits \/ RoleCommits
    <3>1. pc' = "running" /\ handoff' = handoff
      BY <2>1, <2>5 DEF RoleEdits, RoleCommits
    <3>2. told'.whole = told.whole
      <4>1. CASE RoleEdits
        <5> DEFINE unseen == IF tree'["guard"] # run.guard THEN "yes" ELSE "no"
        <5>1. told' = told \/ told' = [told EXCEPT !.unseen = unseen]
          BY <4>1 DEF RoleEdits
        <5> HIDE DEF unseen
        <5> QED BY <5>1 DEF Shape, Excuses
      <4>2. CASE RoleCommits
        BY <4>2 DEF RoleCommits, Shape, Excuses
      <4> QED BY <2>5, <4>1, <4>2
    <3> QED BY <2>1, <3>1, <3>2 DEF WholeInv
  <2> QED BY <1>7, <2>3, <2>4, <2>5 DEF RoleRuns
<1>8. CASE Aftermath
  <2>1. pc \in {"returned", "recorded", "checked", "committed", "unnamed", "refreshed"}
    BY <1>8 DEF Aftermath, OtherReturned, RecordHandback, CheckHandback, CommitWork,
                StampAndRefresh, Gate
  <2>2. ~told.whole => handoff.kind # "approved"
    BY <2>1 DEF WholeInv
  <2>3. handoff' = handoff \/ handoff'.kind # "approved"
    <3>1. ASSUME NEW k \in {"stamped", "gated", "assign"}, handoff' = [handoff EXCEPT !.kind = k]
          PROVE  handoff'.kind # "approved"
      BY <3>1 DEF Shape, Texts
    <3>2. CASE OtherReturned
      <4>1. Escalate \/ handoff' = handoff
        BY <3>2 DEF OtherReturned
      <4> QED BY <4>1, EscalateTold
    <3>3. CASE RecordHandback
      BY <3>3 DEF RecordHandback
    <3>4. CASE CheckHandback
      <4>1. Escalate \/ handoff' = handoff
        BY <3>4 DEF CheckHandback
      <4> QED BY <4>1, EscalateTold
    <3>5. CASE CommitWork
      <4>1. handoff' = handoff \/ handoff' = [handoff EXCEPT !.kind = "stamped"]
        BY <3>5 DEF CommitWork
      <4> QED BY <3>1, <4>1
    <3>6. CASE StampAndRefresh
      <4>1. handoff' = handoff \/ handoff' = [handoff EXCEPT !.kind = "stamped"]
        BY <3>6 DEF StampAndRefresh, Stamped
      <4> QED BY <3>1, <4>1
    <3>7. CASE Gate
      <4>1. PICK passes \in BOOLEAN :
              handoff' = [handoff EXCEPT !.kind =
                 IF ScopeHolds /\ TreeHolds /\ passes THEN "gated" ELSE "assign"]
        BY <3>7 DEF Gate
      <4> QED BY <3>1, <4>1
    <3> QED BY <1>8, <3>2, <3>3, <3>4, <3>5, <3>6, <3>7 DEF Aftermath
  <2>4. told.whole => told'.whole
    <3>1. CASE Ends
      BY <3>1, EndsFields
    <3>2. CASE Escalate
      BY <3>2, EscalateTold
    <3>3. ASSUME NEW again, told' = [told EXCEPT !.again = again]
          PROVE  told'.whole = told.whole
      BY <3>3 DEF Shape, Excuses
    <3>4. ASSUME NEW waived, told' = [told EXCEPT !.waived = waived]
          PROVE  told'.whole = told.whole
      BY <3>4 DEF Shape, Excuses
    <3>5. ASSUME told' = [told EXCEPT !.excused = <<>>]
          PROVE  told'.whole = told.whole
      BY <3>5 DEF Shape, Excuses
    <3> DEFINE again == told.again \/ run.failed
               waived == told.waived \/ run.failed
    <3>6. \/ Ends \/ Escalate \/ told' = told \/ told' = [told EXCEPT !.excused = <<>>]
          \/ told' = [told EXCEPT !.again = again] \/ told' = [told EXCEPT !.waived = waived]
      BY <1>8 DEF Aftermath, OtherReturned, RecordHandback, CheckHandback, CommitWork,
                  StampAndRefresh, Gate
    <3> HIDE DEF again, waived
    <3> QED BY <3>1, <3>2, <3>3, <3>4, <3>5, <3>6
  <2> QED BY <1>0, <2>1, <2>3, <2>4
<1>9. CASE Crash
  BY <1>9, EndsWhole DEF Crash
<1>10. CASE PersonEdits
  BY <1>10, PersonEditsFields DEF WholeInv
<1>11. CASE PersonCommits \/ PersonWrites
  BY <1>11 DEF PersonCommits, PersonWrites, Shape, Excuses, WholeInv
<1> QED BY <1>1, <1>2, <1>3, <1>4, <1>5, <1>6, <1>7, <1>8, <1>9, <1>10, <1>11
        DEF Next, Startup, Outside

LEMMA WholeHolds == Spec => []WholeInv
<1>1. Init => WholeInv
  BY DEF Init, WholeInv
<1>2. Shape /\ KindInv /\ WholeInv /\ [Next]_vars => WholeInv'
  BY WholeStep
<1> QED BY <1>1, <1>2, ShapeHolds, PTL DEF Spec

-----------------------------------------------------------------------------
(* The branch never falls behind a finalizer's record, and is ahead of it once *)
(* the ledger of its approval is committed: a planner's commits are undone only *)
(* back to its own base, which is no older.                                    *)

Reached(commits) ==
  /\ Len(record.base) <= Len(commits)
  /\ told.closed => Len(record.base) < Len(commits)

LedgerInv ==
  record.role = "finalizer" =>
    /\ Reached(head)
    /\ pc \in {"running", "returned"} /\ run.role = "planner" => Reached(run.base)

\* A record of a finalizer is not a new one.
SameBase == record'.role = "finalizer" =>
  record.role = "finalizer" /\ record'.base = record.base

(* Nothing is lost while the record, the planner's base and the branch stay.   *)
LEMMA LedgerQuiet ==
  ASSUME Shape, Shape', LedgerInv, SameBase, told'.closed => told.closed,
         Len(head') >= Len(head),
         pc' \in {"running", "returned"} /\ run'.role = "planner" =>
           /\ pc \in {"running", "returned"} /\ run.role = "planner"
           /\ run'.base = run.base
  PROVE  LedgerInv'
<1>1. /\ Len(head) \in Nat /\ Len(head') \in Nat
      /\ Len(record.base) \in Nat /\ Len(record.base)' \in Nat
      /\ Len(run.base) \in Nat /\ Len(run.base)' \in Nat
  BY DEF Shape, Records, Runs
<1> QED BY <1>1 DEF LedgerInv, Reached, SameBase

LEMMA SameRecord ==
  ASSUME record' = record \/ record' = NoRecord
  PROVE  SameBase
BY DEF SameBase, NoRecord

LEMMA SameHead ==
  ASSUME Shape, head' = head
  PROVE  Len(head') >= Len(head)
BY DEF Shape

LEMMA LedgerAtStartup ==
  ASSUME Shape, Shape', KindInv, LedgerInv, Startup
  PROVE  LedgerInv'
<1>0. pc' \notin {"running", "returned"}
  BY DEF Startup, Start, Recover, NoRecordFound, RecordKept, RecordInvalid, RecoverDispatch,
         RecoverHandback, ReconcilePlannerGit, RecoverPlanner, RecoverAuditor,
         RecoverFinalizer, StopAndKeep, Discard, Confirm, Adopt, Ends, RestoreLeftovers,
         OfferUnrecorded
<1>1. ASSUME record' = record \/ record' = NoRecord, head' = head, told'.closed = told.closed
      PROVE  LedgerInv'
  BY <1>0, <1>1, SameRecord, SameHead, LedgerQuiet
<1>2. CASE Start
  BY <1>1, <1>2 DEF Start
<1>3. CASE Recover
  <2>1. CASE NoRecordFound
    BY <1>1, <2>1 DEF NoRecordFound
  <2>2. CASE RecordKept \/ RecordInvalid
    BY <1>1, <2>2, GivenUpFields DEF RecordKept, RecordInvalid, Delete
  <2>3. ASSUME NEW excused \in BOOLEAN, Discard(excused)
        PROVE  LedgerInv'
    BY <1>1, <2>3, DiscardFields
  <2>4. CASE StopAndKeep
    BY <1>1, <2>4 DEF StopAndKeep
  <2>5. CASE UndoNotes
    BY <2>5 DEF UndoNotes, LedgerInv
  <2>6. ASSUME NEW text, NEW memory, TakeUp(text, memory)
        PROVE  LedgerInv'
    <3>1. Vouched \in BOOLEAN /\ Confirm(text, memory, Vouched)
      BY <2>6 DEF Vouched, TakeUp
    <3>2. /\ record' = record \/ record' = NoRecord
          /\ head' = head /\ told'.closed = told.closed
      BY <3>1, ConfirmFields, GivenUpFields
    <3> QED BY <1>1, <3>2
  <2> QED BY <1>3, <2>1, <2>2, <2>3, <2>4, <2>5, <2>6, RecoverCases
<1>4. CASE Adopt
  <2>1. /\ record' = record \/ record' = NoRecord
        /\ head' = head /\ (Ends \/ told' = told)
    BY <1>4 DEF Adopt, Delete
  <2> QED BY <1>1, <2>1, EndsFields
<1>5. CASE RestoreLeftovers \/ OfferUnrecorded
  <2>1. /\ record' = record /\ head' = head
        /\ told' = told \/ \E excused : told' = [told EXCEPT !.excused = excused]
    BY <1>5 DEF RestoreLeftovers, OfferUnrecorded
  <2>2. told'.closed = told.closed
    BY <2>1 DEF Shape, Excuses
  <2> QED BY <1>1, <2>1, <2>2
<1> QED BY <1>2, <1>3, <1>4, <1>5 DEF Startup

LEMMA LedgerAtTop ==
  ASSUME Shape, Shape', KindInv, LedgerInv, LoopTop
  PROVE  LedgerInv'
<1>1. ASSUME record' = record \/ record' = NoRecord, head' = head, told'.closed = told.closed,
             pc' \notin {"running", "returned"}
      PROVE  LedgerInv'
  BY <1>1, SameRecord, SameHead, LedgerQuiet
<1>2. CASE ClearHandback
  <2>1. /\ record' = record \/ record' = NoRecord
        /\ head' = head /\ pc = "top"
        /\ Ends \/ (told' = told /\ pc' = pc)
    BY <1>2 DEF ClearHandback, Delete
  <2> QED BY <1>1, <2>1, EndsFields
<1>3. CASE StopAtTop
  BY <1>1, <1>3, EndsFields DEF StopAtTop
<1>4. CASE PauseForPerson \/ Resume \/ ResumeHandback
  <2>1. record' = record /\ head' = head /\ pc' \notin {"running", "returned"}
    BY <1>4 DEF PauseForPerson, Resume, ResumeHandback
  <2>2. told'.closed = told.closed
    BY <1>4 DEF PauseForPerson, Resume, ResumeHandback, Shape, Excuses
  <2> QED BY <1>1, <2>1, <2>2
<1>5. ASSUME NEW role \in Roles, Dispatch(role)
      PROVE  LedgerInv'
  <2>1. PICK seen \in BOOLEAN, wrote \in BOOLEAN : DispatchedBy(role, seen, wrote)
    BY <1>5, Dispatched
  <2>2. head' = head
    BY <1>5 DEF Dispatch
  <2>3. /\ run'.role = role /\ run'.base = head
        /\ wrote => record'.role = role /\ record'.base = head
        /\ ~wrote => record' = record
    BY <2>1, DispatchFields
  <2>4. told'.closed = (told.closed /\ role # "finalizer")
    BY <2>1, DispatchTold DEF ClosedOf
  <2>5. Len(head) \in Nat
    BY DEF Shape
  <2>6. CASE wrote
    <3>1. role = "finalizer" => record'.base = head /\ ~told'.closed
      BY <2>3, <2>4, <2>6
    <3>2. record'.role = role /\ run'.role = role
      BY <2>3, <2>6
    <3> QED BY <2>2, <2>5, <3>1, <3>2 DEF LedgerInv, Reached
  <2>7. CASE ~wrote
    <3>1. record' = record /\ (told'.closed => told.closed)
      BY <2>3, <2>4, <2>7
    <3>2. ASSUME record.role = "finalizer"
          PROVE  Reached(head)' /\ Reached(run.base)'
      BY <2>2, <2>3, <3>1, <3>2 DEF LedgerInv, Reached
    <3> QED BY <3>1, <3>2 DEF LedgerInv
  <2> QED BY <2>6, <2>7
<1> QED BY <1>2, <1>3, <1>4, <1>5 DEF LoopTop

LEMMA LedgerAtWork ==
  ASSUME Shape, Shape', KindInv, LedgerInv, RoleRuns
  PROVE  LedgerInv'
<1>1. /\ pc = "running" /\ record' = record
      /\ run'.role = run.role /\ run'.base = run.base
  BY RoleRunsFields
<1>2. ASSUME Len(head') >= Len(head), told'.closed => told.closed
      PROVE  LedgerInv'
  BY <1>1, <1>2, SameRecord, LedgerQuiet
<1>3. CASE RoleEdits \/ RoleReturns
  <2>1. head' = head
    BY <1>3 DEF RoleEdits, RoleReturns
  <2>2. told'.closed = told.closed
    <3>1. CASE RoleEdits
      <4> DEFINE unseen == IF tree'["guard"] # run.guard THEN "yes" ELSE "no"
      <4>1. told' = told \/ told' = [told EXCEPT !.unseen = unseen]
        BY <3>1 DEF RoleEdits
      <4> HIDE DEF unseen
      <4> QED BY <4>1 DEF Shape, Excuses
    <3>2. CASE RoleReturns
      BY <3>2 DEF RoleReturns, Shape, Excuses
    <3> QED BY <1>3, <3>1, <3>2
  <2> QED BY <1>2, <2>1, <2>2, SameHead
<1>4. CASE RoleWrites
  <2> DEFINE closed == told.closed /\ ~(run.role = "auditor" /\ handoff'.kind = "approved")
  <2>1. told' = [told EXCEPT !.closed = closed, !.whole = FALSE] /\ head' = head
    BY <1>4 DEF RoleWrites
  <2>2. closed => told.closed
    OBVIOUS
  <2> HIDE DEF closed
  <2>3. told'.closed => told.closed
    BY <2>1, <2>2 DEF Shape, Excuses
  <2> QED BY <1>2, <2>1, <2>3, SameHead
<1>5. CASE RoleCommits
  <2>1. \/ run.role = "planner" /\ told' = told /\ head' = Append(head, "note")
        \/ run.role = "finalizer" /\ head' = Append(head, "ledger")
    BY <1>5 DEF RoleCommits
  <2>2. Len(head) \in Nat /\ Len(head') = Len(head) + 1
    BY <2>1 DEF Shape
  <2>3. CASE run.role = "planner"
    BY <1>2, <2>1, <2>2, <2>3
  <2>4. CASE run.role = "finalizer"
    <3>1. Len(record.base) \in Nat
      BY DEF Shape, Records
    <3> QED BY <1>1, <2>2, <2>4, <3>1 DEF LedgerInv, Reached
  <2> QED BY <2>1, <2>3, <2>4
<1> QED BY <1>3, <1>4, <1>5 DEF RoleRuns

(* What the steps after a role returned leave of the excuses and the handoff.  *)
LEMMA AfterTold ==
  ASSUME Shape, KindInv, Aftermath
  PROVE  /\ told'.closed = told.closed
         /\ told.again => told'.again
         /\ handoff' = handoff \/ handoff'.kind # "approved"
<1>1. ASSUME NEW k \in {"stamped", "gated", "assign"}, handoff' = [handoff EXCEPT !.kind = k]
      PROVE  handoff'.kind # "approved"
  BY <1>1 DEF Shape, Texts
<1> DEFINE Kept == told'.closed = told.closed /\ (told.again => told'.again)
<1>2. CASE OtherReturned
  <2> DEFINE again == told.again \/ run.failed
  <2>1. \/ Ends /\ handoff' = handoff
        \/ Escalate
        \/ told' = [told EXCEPT !.again = again] /\ handoff' = handoff
    BY <1>2 DEF OtherReturned
  <2>2. CASE Ends /\ handoff' = handoff
    BY <2>2, EndsFields
  <2>3. CASE Escalate
    BY <2>3, EscalateTold
  <2>4. CASE told' = [told EXCEPT !.again = again] /\ handoff' = handoff
    <3>1. told.again => again
      OBVIOUS
    <3>2. told \in Excuses
      BY DEF Shape
    <3> HIDE DEF again
    <3>3. told'.closed = told.closed /\ told'.again = again
      BY <2>4, <3>2 DEF Excuses
    <3> QED BY <2>4, <3>1, <3>3
  <2> QED BY <2>1, <2>2, <2>3, <2>4
<1>3. CASE RecordHandback
  <2>1. handoff' = handoff /\ (Ends \/ told' = told)
    BY <1>3 DEF RecordHandback
  <2> QED BY <2>1, EndsFields
<1>4. CASE CheckHandback
  <2> DEFINE waived == told.waived \/ run.failed
  <2>1. \/ Escalate
        \/ told' = told /\ handoff' = handoff
        \/ told' = [told EXCEPT !.waived = waived] /\ handoff' = handoff
    BY <1>4 DEF CheckHandback
  <2> HIDE DEF waived
  <2> QED BY <2>1, EscalateTold DEF Shape, Excuses
<1>5. CASE CommitWork
  <2>1. /\ told' = told \/ told' = [told EXCEPT !.excused = <<>>]
        /\ handoff' = handoff \/ handoff' = [handoff EXCEPT !.kind = "stamped"]
    BY <1>5 DEF CommitWork
  <2>2. told'.closed = told.closed /\ told'.again = told.again
    BY <2>1 DEF Shape, Excuses
  <2> QED BY <1>1, <2>1, <2>2
<1>6. CASE StampAndRefresh
  <2>1. /\ told' = told \/ Ends
        /\ handoff' = handoff \/ handoff' = [handoff EXCEPT !.kind = "stamped"]
    BY <1>6 DEF StampAndRefresh, Stamped
  <2> QED BY <1>1, <2>1, EndsFields
<1>7. CASE Gate
  <2>1. PICK passes \in BOOLEAN :
          handoff' = [handoff EXCEPT !.kind =
             IF ScopeHolds /\ TreeHolds /\ passes THEN "gated" ELSE "assign"]
    BY <1>7 DEF Gate
  <2>2. told' = told
    BY <1>7 DEF Gate
  <2> QED BY <1>1, <2>1, <2>2
<1> QED BY <1>2, <1>3, <1>4, <1>5, <1>6, <1>7 DEF Aftermath

LEMMA LedgerAfter ==
  ASSUME Shape, Shape', KindInv, LedgerInv, Aftermath
  PROVE  LedgerInv'
<1>1. told'.closed = told.closed
  BY AfterTold
<1>2. ASSUME SameBase, Len(head') >= Len(head), pc' \notin {"running", "returned"}
      PROVE  LedgerInv'
  BY <1>1, <1>2, LedgerQuiet
<1>3. CASE OtherReturned
  <2>1. /\ pc = "returned" /\ (record' = record \/ record' = NoRecord)
        /\ head' = head \/ (run.role = "planner" /\ head' = run.base)
        /\ pc' \in {"down", "top"}
    BY <1>3 DEF OtherReturned, Delete, Ends, Top
  <2>3. CASE head' = head
    BY <1>2, <2>1, <2>3, SameRecord, SameHead
  <2>4. CASE run.role = "planner" /\ head' = run.base
    BY <1>1, <2>1, <2>4, SameRecord DEF LedgerInv, Reached, SameBase
  <2> QED BY <2>1, <2>3, <2>4
<1>4. CASE RecordHandback
  <2>1. /\ head' = head
        /\ record' = record \/ record' = NoRecord \/ record' = Handback
        /\ Ends \/ pc' = "recorded"
    BY <1>4 DEF RecordHandback, Delete
  <2>2. SameBase
    <3>1. CASE record' = Handback
      BY <3>1 DEF SameBase, Handback, Shape, Records
    <3> QED BY <2>1, <3>1, SameRecord
  <2>3. pc' \notin {"running", "returned"}
    BY <2>1 DEF Ends
  <2> QED BY <1>2, <2>1, <2>2, <2>3, SameHead
<1>5. CASE CheckHandback
  <2>1. record' = record /\ head' = head /\ pc' \notin {"running", "returned"}
    BY <1>5 DEF CheckHandback, Top
  <2> QED BY <1>2, <2>1, SameRecord, SameHead
<1>6. CASE CommitWork
  <2>1. /\ record' = record /\ pc' \notin {"running", "returned"}
        /\ head' = head \/ head' = Append(head, run.text.story)
    BY <1>6 DEF CommitWork
  <2>2. Len(head') >= Len(head)
    BY <2>1 DEF Shape
  <2> QED BY <1>2, <2>1, <2>2, SameRecord
<1>7. CASE StampAndRefresh
  <2>1. /\ head' = head /\ (Ends \/ pc' = "refreshed")
        /\ \/ record' = record \/ record' = NoRecord
           \/ record' = [record EXCEPT !.back = handoff', !.backHead = head]
    BY <1>7 DEF StampAndRefresh
  <2>2. SameBase
    <3>1. CASE record' = [record EXCEPT !.back = handoff', !.backHead = head]
      BY <3>1 DEF SameBase, Shape, Records
    <3> QED BY <2>1, <3>1, SameRecord
  <2>3. pc' \notin {"running", "returned"}
    BY <2>1 DEF Ends
  <2> QED BY <1>2, <2>1, <2>2, <2>3, SameHead
<1>8. CASE Gate
  <2>1. record' = record /\ head' = head /\ pc' \notin {"running", "returned"}
    BY <1>8 DEF Gate, Top
  <2> QED BY <1>2, <2>1, SameRecord, SameHead
<1> QED BY <1>3, <1>4, <1>5, <1>6, <1>7, <1>8 DEF Aftermath

LEMMA FrontLength ==
  ASSUME NEW S, NEW s \in Seq(S), Len(s) >= 1
  PROVE  Front(s) \in Seq(S) /\ Len(Front(s)) = Len(s) - 1
<1>1. PICK n \in Nat : n = Len(s) - 1
  OBVIOUS
<1>2. Front(s) \in Seq(S)
  BY <1>1 DEF Front
<1>3. DOMAIN Front(s) = 1 .. n
  BY <1>1 DEF Front
<1>4. DOMAIN Front(s) = 1 .. Len(Front(s)) /\ Len(Front(s)) \in Nat
  BY <1>2
<1> QED BY <1>1, <1>2, <1>3, <1>4

LEMMA LedgerStep ==
  ASSUME Shape, Shape', KindInv, LedgerInv, [Next]_vars
  PROVE  LedgerInv'
<1>1. CASE UNCHANGED vars
  BY <1>1 DEF vars, LedgerInv, Reached
<1>2. CASE Crash
  <2>1. pc' = "down" /\ head' = head /\ record' = record /\ told'.closed = told.closed
    BY <1>2, EndsFields DEF Crash
  <2> QED BY <2>1, SameRecord, SameHead, LedgerQuiet
<1>3. CASE PersonEdits
  <2>1. /\ head' = head /\ record' = record /\ told'.closed = told.closed
        /\ pc' = pc /\ run' = run
    BY <1>3, PersonEditsFields
  <2> QED BY <2>1, SameRecord, SameHead, LedgerQuiet
<1>4. CASE PersonWrites
  <2>1. /\ head' = head /\ record' = record /\ pc' = pc /\ run' = run
        /\ told' = [told EXCEPT !.waived = TRUE, !.again = TRUE, !.whole = TRUE]
    BY <1>4 DEF PersonWrites, Person
  <2>2. told'.closed = told.closed
    BY <2>1 DEF Shape, Excuses
  <2> QED BY <2>1, <2>2, SameRecord, SameHead, LedgerQuiet
<1>5. CASE PersonCommits
  <2>1. /\ record' = record /\ pc' = pc /\ run' = run
        /\ told' = [told EXCEPT !.waived = TRUE, !.again = TRUE, !.whole = TRUE]
        /\ \/ head' = Append(head, "op")
           \/ head # <<>> /\ head' = Append(Front(head), "op")
    BY <1>5 DEF PersonCommits, Person
  <2>2. told'.closed = told.closed
    BY <2>1 DEF Shape, Excuses
  <2>3. Len(head') >= Len(head)
    <3>1. head \in Seq(Marks) /\ "op" \in Marks
      BY DEF Shape, Marks
    <3>2. CASE head' = Append(head, "op")
      BY <3>1, <3>2
    <3>3. CASE head # <<>> /\ head' = Append(Front(head), "op")
      <4>1. Len(head) \in Nat /\ Len(head) >= 1
        BY <3>1, <3>3
      <4>2. Front(head) \in Seq(Marks) /\ Len(Front(head)) = Len(head) - 1
        BY <3>1, <4>1, FrontLength
      <4> QED BY <3>1, <3>3, <4>1, <4>2
    <3> QED BY <2>1, <3>2, <3>3
  <2> QED BY <2>1, <2>2, <2>3, SameRecord, LedgerQuiet
<1> QED BY <1>1, <1>2, <1>3, <1>4, <1>5, LedgerAtStartup, LedgerAtTop, LedgerAtWork,
           LedgerAfter DEF Next, Outside

LEMMA LedgerHolds == Spec => []LedgerInv
<1>1. Init => LedgerInv
  BY DEF Init, LedgerInv, NoRecord
<1>2. Shape /\ KindInv /\ LedgerInv /\ [Next]_vars => LedgerInv'
  BY ShapeStep, LedgerStep
<1> QED BY <1>1, <1>2, ShapeHolds, PTL DEF Spec

-----------------------------------------------------------------------------
(* A verdict whose ledger is committed, and that nothing excuses, is not acted *)
(* on again: while no role runs a finalizer's record says so, and afterwards   *)
(* the handoff approves nothing, its own finalizer still runs, or the loop     *)
(* knows that the planner is next.                                             *)

Answered ==
  \/ handoff.kind # "approved"
  \/ pc \in {"running", "returned"} /\ run.role = "finalizer" /\ handoff = run.text
  \/ pc \in {"adopting", "restoring", "top"} /\ run.pending = "finalizer"
  \/ pc = "top" /\ run.prev = <<"finalizer", handoff>>

ClosedInv ==
  told.closed /\ ~told.again =>
    IF pc \in {"down", "recovering"} THEN record.role = "finalizer" ELSE Answered

(* What was committed since a finalizer's record is its ledger, if no one else *)
(* committed.                                                                  *)
LEMMA LedgerFound ==
  ASSUME Shape, LedgerInv, record.role = "finalizer", told.closed, ~MovedOn
  PROVE  LedgerCommitted
<1>1. Len(record.base) \in Nat /\ Len(head) \in Nat /\ Len(record.base) < Len(head)
  BY DEF Shape, Records, LedgerInv, Reached
<1>2. head[Len(head)] \in Since
  BY <1>1 DEF Since
<1> QED BY <1>2 DEF MovedOn, LedgerCommitted

LEMMA EndsClosed ==
  ASSUME Shape, Ends, record' = record
  PROVE  ClosedInv'
BY EndsFields DEF ClosedInv

LEMMA ClosedAtStartup ==
  ASSUME Shape, KindInv, LedgerInv, ClosedInv, Startup
  PROVE  ClosedInv'
<1>1. CASE Start
  BY <1>1 DEF Start, ClosedInv
<1>2. CASE Recover
  <2>1. pc = "recovering" /\ run = Idle
    BY <1>2, RecoverCases
  <2>2. told.closed /\ ~told.again => record.role = "finalizer"
    BY <2>1 DEF ClosedInv
  <2>3. CASE NoRecordFound
    BY <2>2, <2>3 DEF NoRecordFound, ClosedInv
  <2>4. CASE RecordKept \/ RecordInvalid
    <3>1. told'.again
      BY <2>4, GivenUpFields DEF RecordKept, RecordInvalid
    <3> QED BY <3>1 DEF ClosedInv
  <2>5. CASE Discard(TRUE)
    <3>1. /\ told'.closed = told.closed /\ (told.again => told'.again)
          /\ told'.again \/ (pc' = "down" /\ record' = record)
      BY <2>5, DiscardFields
    <3> QED BY <2>2, <3>1 DEF ClosedInv
  <2>6. CASE StopAndKeep
    <3>1. pc' = "down" /\ record' = record /\ told' = told
      BY <2>6 DEF StopAndKeep
    <3> QED BY <2>2, <3>1 DEF ClosedInv
  <2>7. CASE UndoNotes
    <3>1. pc' = pc /\ record' = record /\ told' = told
      BY <2>7 DEF UndoNotes
    <3> QED BY <2>1, <2>2, <3>1 DEF ClosedInv
  <2>8. CASE Settled /\ Discard(FALSE)
    <3>1. /\ told'.closed = told.closed /\ (told.again => told'.again) /\ handoff' = handoff
          /\ \/ pc' = "restoring"
             \/ pc' = "down" /\ record' = record
      BY <2>8, DiscardFields
    <3>2. ASSUME told.closed, ~told.again
          PROVE  record.role = "finalizer" /\ handoff.kind # "approved"
      <4>1. record.role = "finalizer" /\ record.phase # "handback"
        BY <2>2, <3>2 DEF KindInv, RecordFits
      <4>2. ~MovedOn /\ (Finished("finalizer", handoff) \/ ~LedgerCommitted)
        BY <2>8, <4>1 DEF Settled
      <4>3. Finished("finalizer", handoff)
        BY <3>2, <4>1, <4>2, LedgerFound
      <4> QED BY <4>1, <4>3 DEF Finished
    <3> QED BY <3>1, <3>2 DEF ClosedInv, Answered
  <2>9. ASSUME NEW text, NEW memory, TakeUp(text, memory)
        PROVE  ClosedInv'
    <3>1. Vouched \in BOOLEAN /\ Confirm(text, memory, Vouched) /\ Taken(text, memory)
      BY <2>9 DEF Vouched, TakeUp
    <3>2. \/ /\ pc' = "adopting" /\ run' = memory
             /\ told'.closed = told.closed /\ told'.again = told.again
          \/ told'.again
      BY <3>1, ConfirmFields, GivenUpFields
    <3>3. ASSUME told.closed, ~told.again
          PROVE  memory.pending = "finalizer"
      <4>1. record.role = "finalizer"
        BY <2>2, <3>3
      <4>2. ~MovedOn /\ memory.pending = IF LedgerCommitted THEN "finalizer" ELSE "none"
        BY <3>1, <4>1 DEF Taken
      <4> QED BY <3>3, <4>1, <4>2, LedgerFound
    <3> QED BY <3>2, <3>3 DEF ClosedInv, Answered
  <2> QED BY <1>2, <2>3, <2>4, <2>5, <2>6, <2>7, <2>8, <2>9, RecoverCases
<1>3. CASE Adopt
  <2>1. /\ pc = "adopting" /\ handoff' = handoff
        /\ \/ Ends /\ record' = record
           \/ run' = run /\ told' = told /\ pc' \in {"top", "paused", "restoring"}
              /\ (run.pending \notin {"dispatch", "handback", "pause"} => pc' = "restoring")
    BY <1>3 DEF Adopt, Delete
  <2> QED BY <2>1, EndsClosed DEF ClosedInv, Answered
<1>4. CASE RestoreLeftovers \/ OfferUnrecorded
  <2>1. /\ pc \in {"restoring", "unrecorded"} /\ pc' = "top" /\ handoff' = handoff
        /\ run' = run \/ \E left : run' = [run EXCEPT !.left = left]
        /\ told' = told \/ \E excused : told' = [told EXCEPT !.excused = excused]
    BY <1>4 DEF RestoreLeftovers, OfferUnrecorded
  <2>2. told'.closed = told.closed /\ told'.again = told.again
    BY <2>1 DEF Shape, Excuses
  <2>3. run'.pending = run.pending
    BY <2>1 DEF Shape, Runs
  <2> QED BY <2>1, <2>2, <2>3 DEF ClosedInv, Answered
<1> QED BY <1>1, <1>2, <1>3, <1>4 DEF Startup

LEMMA ClosedAtTop ==
  ASSUME Shape, KindInv, ClosedInv, LoopTop
  PROVE  ClosedInv'
<1>1. CASE ClearHandback
  <2>1. /\ pc = "top" /\ handoff' = handoff
        /\ \/ Ends /\ record' = record
           \/ run' = [run EXCEPT !.back = FALSE] /\ UNCHANGED <<pc, told>>
    BY <1>1 DEF ClearHandback, Delete
  <2>2. CASE run' = [run EXCEPT !.back = FALSE] /\ UNCHANGED <<pc, told>>
    <3>1. run'.pending = run.pending /\ run'.prev = run.prev
      BY <2>2 DEF Shape, Runs
    <3> QED BY <2>1, <2>2, <3>1 DEF ClosedInv, Answered
  <2> QED BY <2>1, <2>2, EndsClosed
<1>2. CASE StopAtTop
  BY <1>2, EndsClosed DEF StopAtTop
<1>3. CASE PauseForPerson
  <2>1. /\ pc = "top" /\ run.pending = "none" /\ (NextRole = "nobody" \/ Stale)
        /\ pc' = "paused" /\ UNCHANGED <<handoff, run, told>>
    BY <1>3 DEF PauseForPerson
  <2>2. ASSUME run.prev = <<"finalizer", handoff>>
        PROVE  FALSE
    <3>1. NextRole = "planner"
      BY <2>1, <2>2 DEF NextRole
    <3> QED BY <2>1, <2>2, <3>1 DEF Stale
  <2> QED BY <2>1, <2>2 DEF ClosedInv, Answered
<1>4. CASE Resume
  <2>1. told' = [told EXCEPT !.waived = TRUE, !.again = TRUE]
    BY <1>4 DEF Resume
  <2>2. told'.again
    BY <2>1 DEF Shape, Excuses
  <2> QED BY <2>2 DEF ClosedInv
<1>5. CASE ResumeHandback
  <2>1. /\ pc = "top" /\ run.pending = "handback"
        /\ UNCHANGED <<handoff, told>> /\ pc' = "recorded"
    BY <1>5 DEF ResumeHandback
  <2>2. run.prev = <<>>
    BY <2>1 DEF KindInv, MemoryFits, Waiting
  <2> QED BY <2>1, <2>2 DEF ClosedInv, Answered
<1>6. ASSUME NEW role \in Roles, Dispatch(role)
      PROVE  ClosedInv'
  <2>1. PICK seen \in BOOLEAN, wrote \in BOOLEAN : DispatchedBy(role, seen, wrote)
    BY <1>6, Dispatched
  <2>2. told'.closed = ClosedOf(role) /\ told'.again = AgainOf(role)
    BY <2>1, DispatchTold
  <2>3. Fits(role, handoff) /\ pc' = "running"
    BY <1>6, DispatchFits
  <2>4. handoff' = handoff
    BY <1>6 DEF Dispatch
  <2>5. handoff.kind = "approved" => role \in {"planner", "finalizer"}
    BY <2>3 DEF Fits, KindsOf, Roles
  <2> QED BY <2>2, <2>3, <2>4, <2>5 DEF ClosedInv, Answered, ClosedOf, AgainOf
<1> QED BY <1>1, <1>2, <1>3, <1>4, <1>5, <1>6 DEF LoopTop

LEMMA ClosedAtWork ==
  ASSUME Shape, KindInv, ClosedInv, RoleRuns
  PROVE  ClosedInv'
<1>1. /\ pc = "running" /\ pc' \in {"running", "returned"}
      /\ run'.role = run.role /\ run'.text = run.text
      /\ told'.again = told.again
      /\ ~RoleCommits /\ ~RoleWrites => told'.closed = told.closed
  BY RoleRunsFields, RoleRunsTold
<1>2. CASE RoleWrites
  <2>1. run.role \in Roles
    BY <1>1, RunningShape DEF AtWork
  <2>2. \E s : \E k \in Outcomes[run.role] \cup {"half"} : handoff' = Text(k, s)
    BY <1>2 DEF RoleWrites
  <2>3. handoff'.kind = "approved" => run.role = "auditor"
    BY <2>1, <2>2 DEF Outcomes, Roles, Text
  <2> DEFINE closed == told.closed /\ ~(run.role = "auditor" /\ handoff'.kind = "approved")
  <2>4. told' = [told EXCEPT !.closed = closed, !.whole = FALSE]
    BY <1>2 DEF RoleWrites
  <2>5. closed => handoff'.kind # "approved"
    BY <2>3
  <2> HIDE DEF closed
  <2>6. told'.closed => handoff'.kind # "approved"
    BY <2>4, <2>5 DEF Shape, Excuses
  <2> QED BY <1>1, <2>6 DEF ClosedInv, Answered
<1>3. CASE RoleCommits
  <2>1. handoff' = handoff
    BY <1>3 DEF RoleCommits
  <2>2. CASE run.role = "finalizer"
    <3>1. handoff = run.text \/ handoff.kind \in {"half", "done"}
      BY <1>1, <2>2 DEF KindInv, WorkFits
    <3> QED BY <1>1, <2>1, <2>2, <3>1 DEF ClosedInv, Answered
  <2>3. CASE run.role # "finalizer"
    <3>1. told' = told
      BY <1>3, <2>3 DEF RoleCommits
    <3> QED BY <1>1, <2>1, <2>3, <3>1 DEF ClosedInv, Answered
  <2> QED BY <2>2, <2>3
<1>4. CASE ~RoleCommits /\ ~RoleWrites
  <2>1. handoff' = handoff
    BY <1>4 DEF RoleRuns, RoleEdits, RoleReturns
  <2> QED BY <1>1, <1>4, <2>1 DEF ClosedInv, Answered
<1> QED BY <1>2, <1>3, <1>4

LEMMA ClosedAfter ==
  ASSUME Shape, KindInv, ClosedInv, Aftermath
  PROVE  ClosedInv'
<1>1. /\ told'.closed = told.closed
      /\ told.again => told'.again
      /\ handoff' = handoff \/ handoff'.kind # "approved"
  BY AfterTold
<1>2. CASE OtherReturned
  <2> DEFINE again == told.again \/ run.failed
  <2>1. /\ pc = "returned"
        /\ \/ Ends /\ record' = record
           \/ Top(run) /\ Escalate
           \/ Top(run) /\ told' = [told EXCEPT !.again = again] /\ handoff' = handoff
    BY <1>2 DEF OtherReturned, Delete, NoRecord
  <2>2. CASE Top(run) /\ Escalate
    <3>1. pc' = "top"
      BY <2>2 DEF Top
    <3> QED BY <2>2, <3>1, EscalateTold DEF ClosedInv, Answered
  <2>3. CASE Top(run) /\ told' = [told EXCEPT !.again = again] /\ handoff' = handoff
    <3>1. told \in Excuses /\ run \in Runs
      BY DEF Shape
    <3>2. ~again => ~told.again /\ ~run.failed
      OBVIOUS
    <3> HIDE DEF again
    <3>3. told'.again = again
      BY <2>3, <3>1 DEF Excuses
    <3>4. pc' = "top" /\ run'.prev = IF run.failed THEN <<>> ELSE <<run.role, run.text>>
      BY <2>3, <3>1, TopFields
    <3> QED BY <1>1, <2>1, <2>3, <3>2, <3>3, <3>4 DEF ClosedInv, Answered
  <2> QED BY <2>1, <2>2, <2>3, EndsClosed
<1>3. CASE ~OtherReturned
  <2>1. /\ \/ pc \in {"recorded", "checked", "committed", "unnamed", "refreshed"}
           \/ pc = "returned" /\ run.role = "backend"
        /\ \/ Ends /\ record' = record
           \/ pc' \notin {"down", "recovering"}
    <3>1. CASE RecordHandback
      BY <3>1 DEF RecordHandback, Delete
    <3>2. CASE CheckHandback
      BY <3>2 DEF CheckHandback, Top
    <3>3. CASE CommitWork
      BY <3>3 DEF CommitWork
    <3>4. CASE StampAndRefresh
      BY <3>4 DEF StampAndRefresh
    <3>5. CASE Gate
      BY <3>5 DEF Gate, Top
    <3> QED BY <1>3, <3>1, <3>2, <3>3, <3>4, <3>5 DEF Aftermath
  <2>2. told.closed /\ ~told.again => handoff.kind # "approved"
    BY <2>1 DEF ClosedInv, Answered
  <2> QED BY <1>1, <2>1, <2>2, EndsClosed DEF ClosedInv, Answered
<1> QED BY <1>2, <1>3

LEMMA ClosedStep ==
  ASSUME Shape, KindInv, LedgerInv, ClosedInv, [Next]_vars
  PROVE  ClosedInv'
<1>1. CASE UNCHANGED vars
  BY <1>1 DEF vars, ClosedInv, Answered
<1>2. CASE Crash
  BY <1>2, EndsClosed DEF Crash
<1>3. CASE PersonEdits
  BY <1>3, PersonEditsFields DEF ClosedInv, Answered
<1>4. CASE PersonCommits \/ PersonWrites
  <2>1. told' = [told EXCEPT !.waived = TRUE, !.again = TRUE, !.whole = TRUE]
    BY <1>4 DEF PersonCommits, PersonWrites
  <2>2. told'.again
    BY <2>1 DEF Shape, Excuses
  <2> QED BY <2>2 DEF ClosedInv
<1> QED BY <1>1, <1>2, <1>3, <1>4, ClosedAtStartup, ClosedAtTop, ClosedAtWork, ClosedAfter
        DEF Next, Outside

LEMMA ClosedHolds == Spec => []ClosedInv
<1>1. Init => ClosedInv
  BY DEF Init, ClosedInv
<1>2. Shape /\ KindInv /\ LedgerInv /\ ClosedInv /\ [Next]_vars => ClosedInv'
  BY ClosedStep
<1> QED BY <1>1, <1>2, ShapeHolds, LedgerHolds, PTL DEF Spec

(* The finalizer acts on a verdict an audit finished, and not again on one     *)
(* whose ledger it committed, wherever a crash, a lost or a declined recovery  *)
(* falls, unless a person's act or a lost record excuses it.                   *)
THEOREM VerdictsActedOnOnce == Spec => FinalizedOnce
<1>1. ASSUME Shape, KindInv, WholeInv, ClosedInv, Dispatch("finalizer")
      PROVE  told.whole /\ (~told.closed \/ told.again)
  <2>1. Fits("finalizer", handoff) /\ pc = "top"
    BY <1>1, DispatchFits DEF Roles
  <2>2. handoff.kind = "approved"
    BY <2>1 DEF Fits, KindsOf
  <2>3. told.whole
    BY <1>1, <2>1, <2>2 DEF WholeInv
  <2>4. ASSUME told.closed, ~told.again
        PROVE  FALSE
    <3>1. run.pending = "finalizer" \/ run.prev = <<"finalizer", handoff>>
      BY <1>1, <2>1, <2>2, <2>4 DEF ClosedInv, Answered
    <3>2. NextRole = "finalizer"
      BY <1>1 DEF Dispatch
    <3>3. run.pending = "finalizer" => run.prev = <<>>
      BY <1>1, <2>1 DEF KindInv, MemoryFits, Waiting
    <3>4. run.prev = <<"finalizer", handoff>> => run.pending = "none"
      BY <1>1, <2>1 DEF KindInv, MemoryFits, Waiting
    <3>5. NextRole = "planner"
      BY <3>1, <3>3, <3>4 DEF NextRole
    <3> QED BY <3>2, <3>5
  <2> QED BY <2>3, <2>4
<1>2. Shape /\ KindInv /\ WholeInv /\ ClosedInv /\ [Next]_vars =>
        [Dispatch("finalizer") => told.whole /\ (~told.closed \/ told.again)]_vars
  BY <1>1
<1> QED BY <1>2, ShapeHolds, WholeHolds, ClosedHolds, PTL DEF Spec, FinalizedOnce

-----------------------------------------------------------------------------
(* What is carried over as a story's work, and what its implementer has in the *)
(* checkout that was not there before, is that story's, or content a person    *)
(* vouched for.                                                                *)

OwnContent(s, c, excused) ==
  \A i \in 1..Len(c) : c[i] = s \/ IsPrefix(SubSeq(c, 1, i), excused)

\* What the memory holds of an earlier run's work.
LeftOwn ==
  "code" \in DOMAIN run.left.files =>
    OwnContent(run.left.story, run.left.files["code"], told.excused)

LeftHolds ==
  /\ pc \in Waiting \cup {"checked", "refreshed"} => LeftOwn
  /\ pc \in {"running", "returned"} /\ run.role # "backend" => LeftOwn

WorkHolds ==
  pc \in {"running", "returned", "recorded", "checked"} /\ run.role = "backend" =>
    "code" \in DOMAIN run.pre \/ OwnContent(run.text.story, tree["code"], told.excused)

\* A handback is taken up with the files the person was shown.
BackHolds ==
  pc \in {"adopting", "top"} /\ run.pending = "handback" =>
    "code" \notin Dirty \ DOMAIN run.pre \/ tree["code"] = told.excused

\* What the cycle lists as left over, it commits.
CommitHolds ==
  "code" \in DOMAIN run.left.files =>
    /\ pc = "checked" => "code" \in ToCommit
    /\ pc \in {"committed", "unnamed"} => "code" \notin Dirty

OwnInv == LeftHolds /\ WorkHolds /\ BackHolds /\ CommitHolds

(* Empty content is anyone's; what is vouched for is anyone's; a story's own   *)
(* edit leaves it the story's.                                                 *)
LEMMA OwnEmpty ==
  ASSUME NEW s, NEW excused
  PROVE  OwnContent(s, <<>>, excused)
BY DEF OwnContent

LEMMA OwnVouched ==
  ASSUME NEW s, NEW c \in Contents
  PROVE  OwnContent(s, c, c)
<1>1. c \in Seq(Authors) /\ Len(c) \in Nat
  BY DEF Contents, Authors
<1>2. ASSUME NEW i \in 1..Len(c)
      PROVE  IsPrefix(SubSeq(c, 1, i), c)
  <2> DEFINE p == SubSeq(c, 1, i)
  <2>1. i \in Nat /\ 1 <= i /\ i <= Len(c)
    BY <1>1
  <2>2. Len(p) = i
    BY <1>1, <2>1
  <2>3. SubSeq(p, 1, i) = p
    <3>1. p \in Seq(Authors)
      BY <1>1, <2>1
    <3> HIDE DEF p
    <3> QED BY <2>1, <2>2, <3>1
  <2> QED BY <2>1, <2>2, <2>3 DEF IsPrefix
<1> QED BY <1>2 DEF OwnContent

LEMMA OwnEdit ==
  ASSUME NEW s, NEW c \in Contents, NEW excused, OwnContent(s, c, excused)
  PROVE  OwnContent(s, Append(c, s), excused)
<1>1. c \in Seq(Authors) /\ Len(c) \in Nat
  BY DEF Contents, Authors
<1> DEFINE d == Append(c, s)
<1>2. Len(d) = Len(c) + 1 /\ d[Len(c) + 1] = s
  BY <1>1
<1>3. ASSUME NEW i \in 1..Len(d)
      PROVE  d[i] = s \/ IsPrefix(SubSeq(d, 1, i), excused)
  <2>1. i \in Nat /\ 1 <= i /\ i <= Len(c) + 1
    BY <1>1, <1>2
  <2>2. CASE i = Len(c) + 1
    BY <1>2, <2>2
  <2>3. CASE i <= Len(c)
    <3>1. d[i] = c[i] /\ \A j \in 1..i : d[j] = c[j]
      BY <1>1, <2>1, <2>3
    <3>2. SubSeq(d, 1, i) = SubSeq(c, 1, i)
      BY <1>1, <1>2, <2>1, <2>3, <3>1
    <3>3. c[i] = s \/ IsPrefix(SubSeq(c, 1, i), excused)
      BY <1>1, <2>1, <2>3 DEF OwnContent
    <3> QED BY <3>1, <3>2, <3>3
  <2> QED BY <1>1, <2>1, <2>2, <2>3
<1> QED BY <1>3 DEF OwnContent

LEMMA LeftStays ==
  ASSUME LeftOwn, run'.left = run.left, told'.excused = told.excused
  PROVE  LeftOwn'
BY DEF LeftOwn

LEMMA OwnDown ==
  ASSUME pc' \in {"down", "recovering"}, run' = Idle
  PROVE  OwnInv'
<1>1. run'.left = NoCarry /\ "code" \notin DOMAIN NoCarry.files
  BY IdleFields DEF NoCarry, Nothing
<1> QED BY <1>1 DEF OwnInv, LeftHolds, WorkHolds, BackHolds, CommitHolds, Waiting

LEMMA OwnWaits ==
  ASSUME pc' \in Waiting \cup {"unrecorded"}, LeftOwn',
         pc' \in {"adopting", "top"} /\ run'.pending = "handback" => BackHolds'
  PROVE  OwnInv'
BY DEF OwnInv, LeftHolds, WorkHolds, BackHolds, CommitHolds, Waiting

LEMMA NothingLeft ==
  ASSUME run.left = NoCarry
  PROVE  LeftOwn
BY DEF LeftOwn, NoCarry, Nothing

\* Files are dropped from a list, never added, and the list stays its story's.
LEMMA SavedCode ==
  ASSUME NEW left, "code" \in DOMAIN Saved(left).files
  PROVE  Saved(left) = left
<1>1. "code" \notin DOMAIN NoCarry.files
  BY DEF NoCarry, Nothing
<1> QED BY <1>1 DEF Saved

LEMMA PrunedCode ==
  ASSUME Shape, NEW left \in Lefts, "code" \in DOMAIN Pruned(left).files
  PROVE  /\ "code" \in DOMAIN left.files /\ "code" \in Dirty
         /\ Pruned(left).story = left.story
         /\ Pruned(left).files["code"] = tree["code"]
<1> DEFINE files == [f \in Same(left) |-> left.files[f]]
           kept == [left EXCEPT !.files = files]
<1>1. Pruned(left) = kept
  <2>1. Pruned(left) = Saved(kept)
    BY DEF Pruned
  <2> HIDE DEF kept
  <2> QED BY <2>1, SavedCode
<1>2. kept.files = files /\ kept.story = left.story
  BY DEF Lefts
<1> HIDE DEF kept
<1>3. "code" \in Same(left)
  BY <1>1, <1>2
<1> QED BY <1>1, <1>2, <1>3 DEF Same

LEMMA TreeContent ==
  ASSUME Shape
  PROVE  tree["code"] \in Contents
BY DEF Shape, Files

LEMMA OwnAtStartup ==
  ASSUME Shape, KindInv, OwnInv, Startup
  PROVE  OwnInv'
<1>0. ASSUME run = Idle
      PROVE  LeftOwn
  BY <1>0, NothingLeft, IdleFields
<1>1. CASE Start
  <2>1. pc' = "recovering" /\ run' = Idle
    BY <1>1 DEF Start, KindInv, MemoryFits
  <2> QED BY <2>1, OwnDown
<1>2. CASE Recover
  <2>1. pc = "recovering" /\ run = Idle /\ LeftOwn
    BY <1>0, <1>2, RecoverCases
  \* The memory stays empty.
  <2>2. ASSUME run' = run, told'.excused = told.excused,
               pc' \in {"down", "recovering", "restoring", "unrecorded"}
        PROVE  OwnInv'
    BY <2>1, <2>2, OwnDown, LeftStays, OwnWaits DEF Waiting
  <2>3. CASE NoRecordFound
    BY <2>2, <2>3 DEF NoRecordFound
  <2>4. CASE RecordKept \/ RecordInvalid
    BY <2>2, <2>4, GivenUpFields DEF RecordKept, RecordInvalid
  <2>5. ASSUME NEW excused \in BOOLEAN, Discard(excused)
        PROVE  OwnInv'
    BY <2>2, <2>5, DiscardFields
  <2>6. CASE StopAndKeep
    BY <2>2, <2>6 DEF StopAndKeep
  <2>7. CASE UndoNotes
    BY <2>1, <2>2, <2>7 DEF UndoNotes
  <2>8. ASSUME NEW text, NEW memory, TakeUp(text, memory)
        PROVE  OwnInv'
    <3>1. /\ Vouched \in BOOLEAN /\ Confirm(text, memory, Vouched)
          /\ Taken(text, memory) /\ memory.prev = <<>>
      BY <2>8 DEF Vouched, TakeUp
    <3>2. CASE run' = run /\ told' = GivenUp /\ pc' = "restoring"
      BY <2>2, <3>2, GivenUpFields
    <3>3. CASE /\ pc' = "adopting" /\ run' = memory /\ UNCHANGED <<tree, record>>
               /\ told'.excused = IF Vouched THEN tree["code"] ELSE told.excused
      <4>1. ASSUME memory.left = Interrupted, "code" \in DOMAIN memory.left.files,
                   record.role = "backend"
            PROVE  Vouched /\ memory.left.files["code"] = tree["code"]
        <5>1. "code" \in AgentFiles
          BY <4>1 DEF Interrupted, Prints
        <5> QED BY <4>1, <5>1 DEF Interrupted, Prints, Vouched
      <4>2. "code" \notin DOMAIN NoCarry.files
        BY DEF NoCarry, Nothing
      <4>3. memory.left = NoCarry \/ (memory.left = Interrupted /\ record.role = "backend")
        BY <3>1 DEF Taken
      <4>4. "code" \in DOMAIN memory.left.files =>
              memory.left.files["code"] = tree["code"] /\ told'.excused = tree["code"]
        BY <3>3, <4>1, <4>2, <4>3
      <4>5. LeftOwn'
        BY <3>3, <4>4, TreeContent, OwnVouched DEF LeftOwn
      <4>6. run'.pending = "handback" => BackHolds'
        <5>1. ASSUME run'.pending = "handback"
              PROVE  memory.pre = record.dirty /\ record.role = "backend"
          BY <3>1, <3>3, <5>1 DEF Taken
        <5>2. ASSUME run'.pending = "handback", "code" \in Dirty \ DOMAIN memory.pre
              PROVE  tree["code"] = told'.excused
          BY <3>3, <5>1, <5>2 DEF Vouched, AgentFiles
        <5>3. Dirty' = Dirty
          BY <3>3 DEF Dirty
        <5> QED BY <3>3, <5>2, <5>3 DEF BackHolds
      <4> QED BY <3>3, <4>5, <4>6, OwnWaits DEF Waiting
    <3> QED BY <3>1, <3>2, <3>3, ConfirmFields
  <2> QED BY <1>2, <2>3, <2>4, <2>5, <2>6, <2>7, <2>8, RecoverCases
<1>3. CASE Adopt
  <2>1. \/ Ends
        \/ /\ pc = "adopting" /\ UNCHANGED <<run, told, tree>>
           /\ pc' \in {"top", "paused", "restoring"}
    BY <1>3 DEF Adopt
  <2>2. CASE Ends
    BY <2>2, EndsFields, OwnDown
  <2>3. CASE /\ pc = "adopting" /\ UNCHANGED <<run, told, tree>>
             /\ pc' \in {"top", "paused", "restoring"}
    <3>1. LeftOwn'
      BY <2>3, LeftStays DEF OwnInv, LeftHolds, Waiting
    <3>2. BackHolds'
      BY <2>3 DEF OwnInv, BackHolds, Dirty
    <3> QED BY <2>3, <3>1, <3>2, OwnWaits DEF Waiting
  <2> QED BY <2>1, <2>2, <2>3
<1>4. CASE RestoreLeftovers
  <2>1. PICK yes \in BOOLEAN :
          LET left == Pruned(carry)
          IN /\ carry' = IF left # NoCarry /\ yes THEN carry ELSE NoCarry
             /\ run' = [run EXCEPT !.left = IF yes THEN left ELSE NoCarry]
             /\ told' = [told EXCEPT !.excused =
                  IF yes /\ "code" \in DOMAIN left.files THEN tree["code"] ELSE @]
    BY <1>4 DEF RestoreLeftovers, Ask
  <2> DEFINE left == IF yes THEN Pruned(carry) ELSE NoCarry
             excused == IF yes /\ "code" \in DOMAIN Pruned(carry).files
                        THEN tree["code"] ELSE told.excused
  <2>2. run' = [run EXCEPT !.left = left] /\ told' = [told EXCEPT !.excused = excused]
    BY <2>1
  <2>3. "code" \in DOMAIN left.files =>
          left.files["code"] = tree["code"] /\ excused = tree["code"]
    <3>1. carry \in Lefts
      BY DEF Shape
    <3>2. "code" \notin DOMAIN NoCarry.files
      BY DEF NoCarry, Nothing
    <3> QED BY <3>1, <3>2, PrunedCode
  <2> HIDE DEF left, excused
  <2>4. run'.left = left /\ run'.pending = run.pending /\ told'.excused = excused
    BY <2>2 DEF Shape, Runs, Excuses
  <2>5. LeftOwn'
    BY <2>3, <2>4, TreeContent, OwnVouched DEF LeftOwn
  <2>6. pc = "restoring" /\ pc' = "top"
    BY <1>4 DEF RestoreLeftovers
  <2>7. run.pending # "handback"
    BY <2>6 DEF KindInv, MemoryFits, Waiting
  <2> QED BY <2>4, <2>5, <2>6, <2>7, OwnWaits DEF Waiting
<1>5. CASE OfferUnrecorded
  <2>1. pc = "unrecorded" /\ pc' = "top" /\ run = Idle
    BY <1>5 DEF OfferUnrecorded, KindInv, MemoryFits
  <2>2. run.pending = "none" /\ LeftOwn
    BY <1>0, <2>1, IdleFields
  <2> DEFINE left == [story |-> handoff.story, files |-> Prints(Offered)]
  <2>3. \/ UNCHANGED <<run, told>>
        \/ /\ run' = [run EXCEPT !.left = left]
           /\ told' = [told EXCEPT !.excused = tree["code"]]
    BY <1>5 DEF OfferUnrecorded
  <2>4. "code" \in DOMAIN left.files => left.files["code"] = tree["code"]
    BY DEF Prints
  <2> HIDE DEF left
  <2>5. CASE UNCHANGED <<run, told>>
    BY <2>1, <2>2, <2>5, LeftStays, OwnWaits DEF Waiting
  <2>6. CASE /\ run' = [run EXCEPT !.left = left]
             /\ told' = [told EXCEPT !.excused = tree["code"]]
    <3>1. run'.left = left /\ run'.pending = run.pending /\ told'.excused = tree["code"]
      BY <2>6 DEF Shape, Runs, Excuses
    <3>2. LeftOwn'
      BY <2>4, <3>1, TreeContent, OwnVouched DEF LeftOwn
    <3> QED BY <2>1, <2>2, <3>1, <3>2, OwnWaits DEF Waiting
  <2> QED BY <2>3, <2>5, <2>6
<1> QED BY <1>1, <1>2, <1>3, <1>4, <1>5 DEF Startup

LEMMA OwnAtTop ==
  ASSUME Shape, KindInv, OwnInv, LoopTop
  PROVE  OwnInv'
<1>1. pc \in {"top", "paused"} /\ tree' = tree
  BY DEF LoopTop, ClearHandback, StopAtTop, PauseForPerson, Resume, ResumeHandback, Dispatch
<1>2. LeftOwn
  BY <1>1 DEF OwnInv, LeftHolds, Waiting
<1>3. CASE ClearHandback
  <2>1. \/ Ends
        \/ pc = "top" /\ run' = [run EXCEPT !.back = FALSE] /\ UNCHANGED <<pc, told>>
    BY <1>3 DEF ClearHandback
  <2>2. CASE Ends
    BY <2>2, EndsFields, OwnDown
  <2>3. CASE pc = "top" /\ run' = [run EXCEPT !.back = FALSE] /\ UNCHANGED <<pc, told>>
    <3>1. run'.left = run.left /\ run'.pending = run.pending /\ run'.pre = run.pre
      BY <2>3 DEF Shape, Runs
    <3>2. BackHolds'
      BY <1>1, <2>3, <3>1 DEF OwnInv, BackHolds, Dirty
    <3> QED BY <1>2, <2>3, <3>1, <3>2, LeftStays, OwnWaits DEF Waiting
  <2> QED BY <2>1, <2>2, <2>3
<1>4. CASE StopAtTop
  BY <1>4, EndsFields, OwnDown DEF StopAtTop
<1>5. CASE PauseForPerson
  <2>1. pc' = "paused" /\ UNCHANGED <<run, told>>
    BY <1>5 DEF PauseForPerson
  <2> QED BY <1>2, <2>1, LeftStays, OwnWaits DEF Waiting
<1>6. CASE Resume
  <2>1. /\ pc' = "top" /\ run' = [run EXCEPT !.pending = "none", !.prev = <<>>]
        /\ told' = [told EXCEPT !.waived = TRUE, !.again = TRUE]
    BY <1>6 DEF Resume
  <2>2. run'.left = run.left /\ run'.pending = "none" /\ told'.excused = told.excused
    BY <2>1 DEF Shape, Runs, Excuses
  <2> QED BY <1>2, <2>1, <2>2, LeftStays, OwnWaits DEF Waiting
<1>7. CASE ResumeHandback
  <2>1. /\ pc = "top" /\ run.pending = "handback" /\ pc' = "recorded" /\ told' = told
        /\ run' = [run EXCEPT !.pending = "none", !.role = "backend",
                              !.guard = run.held, !.held = NotHeld]
    BY <1>7 DEF ResumeHandback
  <2>2. run'.pre = run.pre /\ run'.text = run.text
    BY <2>1 DEF Shape, Runs
  <2>3. ASSUME "code" \notin DOMAIN run.pre
        PROVE  OwnContent(run.text.story, tree["code"], told.excused)
    <3>1. CASE "code" \in Dirty
      BY <2>1, <2>3, <3>1, TreeContent, OwnVouched DEF OwnInv, BackHolds
    <3>2. CASE "code" \notin Dirty
      BY <3>2, OwnEmpty DEF Dirty, Files
    <3> QED BY <3>1, <3>2
  <2>4. WorkHolds'
    BY <1>1, <2>1, <2>2, <2>3 DEF WorkHolds
  <2> QED BY <2>1, <2>4 DEF OwnInv, LeftHolds, BackHolds, CommitHolds, Waiting
<1>8. ASSUME NEW role \in Roles, Dispatch(role)
      PROVE  OwnInv'
  <2>1. PICK seen \in BOOLEAN, wrote \in BOOLEAN : DispatchedBy(role, seen, wrote)
    BY <1>8, Dispatched
  <2>2. /\ run'.role = role /\ run'.text = handoff /\ run'.pre = PreOf(role, seen)
        /\ run'.left = LeftOf(role)
    BY <2>1, DispatchFields
  <2>3. told'.excused = (IF seen THEN told.excused ELSE tree["code"]) /\ (seen \/ role = "backend")
    BY <2>1, DispatchTold
  <2>4. pc' = "running"
    BY <1>8 DEF Dispatch
  <2>5. role # "backend" => LeftOwn'
    BY <1>2, <2>2, <2>3, LeftStays DEF LeftOf
  <2>6. ASSUME role = "backend", "code" \notin DOMAIN PreOf(role, seen)
        PROVE  OwnContent(handoff.story, tree["code"], told'.excused)
    <3>1. CASE ~seen
      BY <2>3, <3>1, TreeContent, OwnVouched
    <3>2. CASE seen
      <4>1. "code" \notin Dirty \ Carried(handoff.story)
        BY <2>6, <3>2 DEF PreOf, Prints
      <4>2. CASE "code" \notin Dirty
        BY <4>2, OwnEmpty DEF Dirty, Files
      <4>3. CASE "code" \in Carried(handoff.story)
        <5>1. /\ run.left.story = handoff.story /\ "code" \in DOMAIN run.left.files
              /\ tree["code"] = run.left.files["code"]
          BY <4>3 DEF Carried, Same
        <5> QED BY <1>2, <2>3, <3>2, <5>1 DEF LeftOwn
      <4> QED BY <4>1, <4>2, <4>3
    <3> QED BY <3>1, <3>2
  <2>7. WorkHolds'
    BY <1>1, <2>2, <2>6 DEF WorkHolds
  <2> QED BY <2>2, <2>4, <2>5, <2>7 DEF OwnInv, LeftHolds, BackHolds, CommitHolds, Waiting
<1> QED BY <1>3, <1>4, <1>5, <1>6, <1>7, <1>8 DEF LoopTop

LEMMA OwnAtWork ==
  ASSUME Shape, KindInv, OwnInv, RoleRuns
  PROVE  OwnInv'
<1>1. /\ pc = "running" /\ pc' \in {"running", "returned"}
      /\ run'.role = run.role /\ run'.text = run.text /\ run'.pre = run.pre
      /\ run'.left = run.left /\ told'.excused = told.excused
  BY RoleRunsFields, RoleRunsTold
<1>2. run.role # "backend" => LeftOwn'
  BY <1>1, LeftStays DEF OwnInv, LeftHolds
<1>3. ASSUME run.role = "backend"
      PROVE  \/ tree'["code"] = tree["code"]
             \/ tree'["code"] = Append(tree["code"], run.text.story)
  <2>1. tree \in [Files -> Contents] /\ "code" \in Files
    BY DEF Shape, Files
  <2>2. \/ tree' = tree
        \/ Edit("code", run.text.story)
        \/ Edit("guard", run.text.story)
    BY <1>3 DEF RoleRuns, RoleEdits, RoleCommits, RoleWrites, RoleReturns
  <2> QED BY <2>1, <2>2 DEF Edit
<1>4. WorkHolds'
  BY <1>1, <1>3, TreeContent, OwnEdit DEF OwnInv, WorkHolds
<1> QED BY <1>1, <1>2, <1>4 DEF OwnInv, LeftHolds, BackHolds, CommitHolds, Waiting

LEMMA OwnAfter ==
  ASSUME Shape, KindInv, OwnInv, Aftermath
  PROVE  OwnInv'
<1>0. run \in Runs /\ told \in Excuses
  BY DEF Shape
<1>1. CASE Ends
  BY <1>1, EndsFields, OwnDown
<1>2. ASSUME NEW memory \in Runs, Top(memory),
             "code" \in DOMAIN memory.left.files =>
               OwnContent(memory.left.story, memory.left.files["code"], told'.excused)
      PROVE  OwnInv'
  <2>1. pc' = "top" /\ run'.left = memory.left /\ run'.pending = "none"
    BY <1>2, TopFields
  <2>2. LeftOwn'
    BY <1>2, <2>1 DEF LeftOwn
  <2> QED BY <2>1, <2>2, OwnWaits DEF Waiting
<1>3. CASE OtherReturned
  <2> DEFINE again == told.again \/ run.failed
  <2>1. /\ pc = "returned" /\ run.role # "backend"
        /\ \/ Ends
           \/ Top(run) /\ Escalate
           \/ Top(run) /\ told' = [told EXCEPT !.again = again]
    BY <1>3 DEF OtherReturned
  <2> HIDE DEF again
  <2>2. LeftOwn
    BY <2>1 DEF OwnInv, LeftHolds
  <2>3. Ends \/ (Top(run) /\ told'.excused = told.excused)
    BY <1>0, <2>1, EscalateTold DEF Excuses
  <2> QED BY <1>0, <1>1, <1>2, <2>2, <2>3 DEF LeftOwn
<1>4. CASE RecordHandback
  <2>1. /\ pc = "returned" /\ run.role = "backend" /\ tree' = tree
        /\ \/ Ends
           \/ /\ pc' = "recorded" /\ told' = told
              /\ run' = run \/ \E back : run' = [run EXCEPT !.back = back]
    BY <1>4 DEF RecordHandback
  <2>2. CASE /\ pc' = "recorded" /\ told' = told
             /\ run' = run \/ \E back : run' = [run EXCEPT !.back = back]
    <3>1. run'.role = run.role /\ run'.text = run.text /\ run'.pre = run.pre
      BY <1>0, <2>2 DEF Runs
    <3>2. WorkHolds'
      BY <2>1, <2>2, <3>1 DEF OwnInv, WorkHolds
    <3> QED BY <2>2, <3>2 DEF OwnInv, LeftHolds, BackHolds, CommitHolds, Waiting
  <2> QED BY <1>1, <2>1, <2>2
<1>5. CASE CheckHandback
  <2> DEFINE waived == told.waived \/ run.failed
             listed(left) == [run EXCEPT !.left = left]
  <2>1. PICK seen \in BOOLEAN :
          LET left == Saved([story |-> run.text.story,
                             files |-> Prints(IF seen THEN Dirty \ DOMAIN run.pre ELSE {})])
          IN /\ carry' = left
             /\ pc = "recorded" /\ tree' = tree
             /\ \/ Escalate /\ Top(listed(left))
                \/ pc' = "checked" /\ run' = listed(left) /\ told' = told
                \/ Top(listed(left)) /\ told' = [told EXCEPT !.waived = waived]
    BY <1>5 DEF CheckHandback, Works
  <2> DEFINE fs == IF seen THEN Dirty \ DOMAIN run.pre ELSE {}
             mine == [story |-> run.text.story, files |-> Prints(fs)]
             left == Saved(mine)
  <2>2. left \in Lefts
    BY <1>5, <2>1, ShapeAfter DEF Aftermath, Shape
  <2>3. ASSUME "code" \in DOMAIN left.files
        PROVE  /\ left.story = run.text.story /\ left.files["code"] = tree["code"]
               /\ "code" \in Dirty \ DOMAIN run.pre
    <3>1. left = mine
      BY <2>3, SavedCode
    <3> QED BY <2>3, <3>1 DEF Prints
  <2>4. run.role = "backend"
    BY <2>1 DEF KindInv, WorkFits, AtWork
  <2>5. "code" \in DOMAIN left.files =>
          OwnContent(left.story, left.files["code"], told.excused)
    BY <2>1, <2>3, <2>4 DEF OwnInv, WorkHolds
  <2>6. \/ Escalate /\ Top(listed(left))
        \/ pc' = "checked" /\ run' = listed(left) /\ told' = told
        \/ Top(listed(left)) /\ told' = [told EXCEPT !.waived = waived]
    BY <2>1
  <2>7. "code" \in DOMAIN left.files => "code" \in Dirty \ DOMAIN run.pre
    BY <2>3
  <2> HIDE DEF left, waived
  <2>8. /\ listed(left) \in Runs /\ listed(left).left = left /\ listed(left).pre = run.pre
        /\ listed(left).role = run.role /\ listed(left).text = run.text
    BY <1>0, <2>2 DEF Runs
  <2> HIDE DEF listed
  <2>9. CASE Escalate /\ Top(listed(left))
    BY <1>2, <2>5, <2>8, <2>9, EscalateTold
  <2>10. CASE Top(listed(left)) /\ told' = [told EXCEPT !.waived = waived]
    <3>1. told'.excused = told.excused
      BY <1>0, <2>10 DEF Excuses
    <3> QED BY <1>2, <2>5, <2>8, <2>10, <3>1
  <2>11. CASE pc' = "checked" /\ run' = listed(left) /\ told' = told
    <3>1. LeftOwn'
      BY <2>5, <2>8, <2>11 DEF LeftOwn
    <3>2. WorkHolds'
      BY <2>1, <2>8, <2>11 DEF OwnInv, WorkHolds
    <3>3. CommitHolds'
      BY <2>1, <2>7, <2>8, <2>11 DEF CommitHolds, ToCommit, Dirty
    <3> QED BY <2>11, <3>1, <3>2, <3>3 DEF OwnInv, LeftHolds, BackHolds
  <2> QED BY <2>6, <2>9, <2>10, <2>11
<1>6. CASE CommitWork
  <2>1. /\ pc = "checked" /\ run' = run
        /\ \/ pc' \in {"committed", "unnamed"} /\ tree' = [tree EXCEPT !["code"] = <<>>]
           \/ pc' = "committed" /\ ToCommit = {}
           \/ pc' = "refreshed" /\ told' = told
    BY <1>6 DEF CommitWork
  <2>2. CASE pc' \in {"committed", "unnamed"} /\ tree' = [tree EXCEPT !["code"] = <<>>]
    <3>1. "code" \notin Dirty'
      BY <2>2 DEF Dirty, Shape, Files
    <3> QED BY <2>2, <3>1 DEF OwnInv, LeftHolds, WorkHolds, BackHolds, CommitHolds, Waiting
  <2>3. CASE pc' = "committed" /\ ToCommit = {}
    <3>1. "code" \notin DOMAIN run.left.files
      BY <2>1, <2>3 DEF OwnInv, CommitHolds
    <3> QED BY <2>1, <2>3, <3>1 DEF OwnInv, LeftHolds, WorkHolds, BackHolds, CommitHolds, Waiting
  <2>4. CASE pc' = "refreshed" /\ told' = told
    <3>1. LeftOwn'
      BY <2>1, <2>4, LeftStays DEF OwnInv, LeftHolds
    <3> QED BY <2>4, <3>1 DEF OwnInv, LeftHolds, WorkHolds, BackHolds, CommitHolds
  <2> QED BY <2>1, <2>2, <2>3, <2>4
<1>7. CASE StampAndRefresh
  <2> DEFINE left == Pruned(run.left)
  <2>1. /\ pc \in {"committed", "unnamed"}
        /\ \/ Ends
           \/ pc' = "refreshed" /\ \E back : run' = [run EXCEPT !.left = left, !.back = back]
    BY <1>7 DEF StampAndRefresh
  <2>2. "code" \notin DOMAIN left.files
    <3>1. run.left \in Lefts
      BY <1>0 DEF Runs
    <3> QED BY <2>1, <3>1, PrunedCode DEF OwnInv, CommitHolds
  <2> HIDE DEF left
  <2>3. CASE pc' = "refreshed" /\ \E back : run' = [run EXCEPT !.left = left, !.back = back]
    <3>1. run'.left = left
      BY <1>0, <2>3 DEF Runs
    <3> QED BY <2>2, <2>3, <3>1
            DEF OwnInv, LeftHolds, LeftOwn, WorkHolds, BackHolds, CommitHolds
  <2> QED BY <1>1, <2>1, <2>3
<1>8. CASE Gate
  <2>1. pc = "refreshed" /\ Top(run) /\ told' = told
    BY <1>8 DEF Gate
  <2> QED BY <1>0, <1>2, <2>1 DEF OwnInv, LeftHolds, LeftOwn
<1> QED BY <1>3, <1>4, <1>5, <1>6, <1>7, <1>8 DEF Aftermath

LEMMA OwnStep ==
  ASSUME Shape, KindInv, OwnInv, [Next]_vars
  PROVE  OwnInv'
<1>1. CASE UNCHANGED vars
  BY <1>1 DEF vars, OwnInv, LeftHolds, LeftOwn, WorkHolds, BackHolds, CommitHolds, ToCommit, Dirty
<1>2. CASE Crash
  BY <1>2, EndsFields, OwnDown DEF Crash
<1>3. CASE PersonEdits \/ PersonCommits \/ PersonWrites
  <2>1. pc \in {"down", "paused"} /\ pc' = pc /\ run' = run
    BY <1>3 DEF PersonEdits, PersonCommits, PersonWrites, Person
  <2>2. CASE pc = "down"
    BY <2>1, <2>2, OwnDown DEF KindInv, MemoryFits
  <2>3. CASE pc = "paused"
    <3>1. told'.excused = told.excused
      <4>1. CASE PersonEdits
        BY <4>1, PersonEditsFields
      <4>2. CASE PersonCommits \/ PersonWrites
        <5>1. told' = [told EXCEPT !.waived = TRUE, !.again = TRUE, !.whole = TRUE]
          BY <4>2 DEF PersonCommits, PersonWrites
        <5> QED BY <5>1 DEF Shape, Excuses
      <4> QED BY <1>3, <4>1, <4>2
    <3>2. LeftOwn
      BY <2>3 DEF OwnInv, LeftHolds, Waiting
    <3> QED BY <2>1, <2>3, <3>1, <3>2, LeftStays, OwnWaits DEF Waiting
  <2> QED BY <2>1, <2>2, <2>3
<1> QED BY <1>1, <1>2, <1>3, OwnAtStartup, OwnAtTop, OwnAtWork, OwnAfter DEF Next, Outside

LEMMA OwnHolds == Spec => []OwnInv
<1>1. ASSUME Init
      PROVE  OwnInv
  <2>1. pc = "down" /\ run.left = NoCarry
    BY <1>1, IdleFields DEF Init
  <2>2. "code" \notin DOMAIN run.left.files
    BY <2>1 DEF NoCarry, Nothing
  <2> QED BY <2>1, <2>2 DEF OwnInv, LeftHolds, WorkHolds, BackHolds, CommitHolds, Waiting
<1>2. Shape /\ KindInv /\ OwnInv /\ [Next]_vars => OwnInv'
  BY OwnStep
<1> QED BY <1>1, <1>2, ShapeHolds, PTL DEF Spec

(* What the dispatcher commits for a story is that story's work, through any   *)
(* number of crashes, recoveries, leftovers and edits of a person.             *)
THEOREM CommitsAreOwned == Spec => CommittedAsOwned
<1>1. ASSUME Shape, KindInv, OwnInv, Next, pc = "checked", head' # head
      PROVE  Owned(run.text.story)
  <2>1. CommitWork
    BY <1>1 DEF Next, Startup, Start, Recover, NoRecordFound, RecordKept, RecordInvalid,
         RecoverDispatch, RecoverHandback, ReconcilePlannerGit, RecoverPlanner,
         RecoverAuditor, RecoverFinalizer, Adopt, RestoreLeftovers, OfferUnrecorded,
         LoopTop, ClearHandback, StopAtTop, PauseForPerson, Resume, ResumeHandback, Dispatch,
         RoleRuns, RoleEdits, RoleCommits, RoleWrites, RoleReturns, Aftermath,
         OtherReturned, RecordHandback, CheckHandback, StampAndRefresh, Gate, Outside,
         Crash, Person, PersonEdits, PersonCommits, PersonWrites
  <2>2. ToCommit # {}
    BY <1>1, <2>1 DEF CommitWork
  <2>3. "code" \notin DOMAIN run.pre
    BY <2>2 DEF ToCommit
  <2>4. run.role = "backend"
    BY <1>1 DEF KindInv, WorkFits, AtWork
  <2> QED BY <1>1, <2>3, <2>4 DEF OwnInv, WorkHolds, OwnContent, Owned
<1>2. Shape /\ KindInv /\ OwnInv /\ [Next]_vars =>
        [pc = "checked" /\ head' # head => Owned(run.text.story)]_vars
  BY <1>1
<1> QED BY <1>2, ShapeHolds, OwnHolds, PTL DEF Spec, CommittedAsOwned
=============================================================================
