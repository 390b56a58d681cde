---------------------------- MODULE ReplyPlanProofs ----------------------------
(***************************************************************************)
(* Proofs about reply plans, for any number of candidates, handlers,        *)
(* executions and rules: which texts are posted, that records of sends last *)
(* and withdrawals are final, and for which comments candidates are made.   *)
(***************************************************************************)
EXTENDS ReplyPlanProps, TLAPS

-----------------------------------------------------------------------------
(* Types, and what handlers, executions and the worker hold.               *)

PlanRow == [status : PlanStatus, approver : BOOLEAN, automatic : BOOLEAN]
CandRow == [status : CandStatus, text : Texts \cup {NoText}, reason : BOOLEAN]
ThreadRow ==
  [pc : {"idle", "write", "sync", "apply", "seal"}, op : Operations \cup {NoOperation},
   payload : Payload]
RunRow ==
  [pc : {"idle", "apply", "list", "resync", "look", "gate", "click", "landed", "persist", "mark",
         "close"},
   payload : Payload, listed : SUBSET Candidates, todo : SUBSET Candidates,
   sent : SUBSET Candidates, text : [Candidates -> Texts \cup {NoText}],
   now : SUBSET Candidates, existing : RecordStatus, outcome : RecordStatus]
WorkerRow ==
  [left : SUBSET DOMAIN Readings, pc : {"off", "on", "apply"}, payload : Payload,
   rules : SUBSET DOMAIN Rules]

\* TypeOK with a name for each kind of row.
Types ==
  /\ plan \in PlanRow /\ cand \in [Candidates -> CandRow]
  /\ record \in [Candidates -> RecordStatus]
  /\ history \in [Candidates -> [Texts -> {"none", "performed", "verified"}]]
  /\ posted \in [Candidates -> [Texts -> Nat]]
  /\ worker \in WorkerRow /\ rules \subseteq DOMAIN Rules
  /\ hand \in [Handlers -> ThreadRow] /\ exec \in [Executors -> RunRow]
  /\ approved \in [Candidates -> SUBSET Texts]
  /\ raced \subseteq Candidates \X {"handlers", "executions"}
  /\ settled \subseteq Candidates \cup {"plan"}
  /\ ops \in 0..MaxOps /\ runs \in 0..MaxRuns /\ generations \in 0..MaxGenerations
  /\ crashes \in 0..MaxCrashes

\* What a handler is about to write passed its check on a row that exists.
HandOK(h) ==
  hand[h].pc = "write" =>
    /\ hand[h].op \in Operations
    /\ hand[h].op.kind \in {"approve", "edit", "reject", "cancel", "cancel_plan"}
    /\ hand[h].op.kind # "cancel_plan" => cand[hand[h].op.cand].status # "none"
    /\ hand[h].op.kind = "approve" => cand[hand[h].op.cand].text \in Texts

\* An execution sends candidates that exist, with the texts they had when listed, and
\* one at a time.
ExecOK(e) ==
  /\ exec[e].pc \in {"idle", "apply", "list", "resync"} => exec[e].todo = {}
  /\ exec[e].pc \in {"idle", "apply", "list", "resync", "look", "close"} => exec[e].now = {}
  /\ \A c, d \in exec[e].now : c = d
  /\ \A c \in Sending(e) : cand[c].status # "none" /\ exec[e].text[c] \in Texts

\* An approved candidate has a text.
RowsOK == \A c \in Approved : cand[c].text \in Texts

\* The worker goes through readings that may be answered.
WorkerOK == \A i \in worker.left : Readings[i].allowed

TypeInv ==
  /\ Types /\ RowsOK /\ WorkerOK
  /\ \A h \in Handlers : HandOK(h)
  /\ \A e \in Executors : ExecOK(e)

\* From here on only candidates that no two handlers, or no two executions, overlapped on.
ApprovedTexts ==
  \A c \in Candidates \ Raced("handlers") :
    /\ cand[c].status = "approved" => cand[c].text \in approved[c]
    /\ \A h \in Handlers : c \in Writing(h) /\ hand[h].op.kind = "approve"
                           => cand[c].text \in approved[c]
    /\ \A e \in Executors : c \in Sending(e) => exec[e].text[c] \in approved[c]
    /\ \A t \in Texts : posted[c][t] > 0 => t \in approved[c]

\* Executions that look after a record look after the same candidate one at a time.
BeforeRecord == {"gate", "click", "landed", "persist"}

SentOK(e) ==
  \A c \in Candidates \ Raced("executions") :
    /\ exec[e].pc \in BeforeRecord /\ c \in exec[e].now
       => record[c] = exec[e].existing /\ record[c] # "sent"
    /\ exec[e].pc = "mark" /\ c \in exec[e].now /\ exec[e].outcome = "sent" => record[c] = "sent"
    /\ c \in exec[e].sent => record[c] = "sent"

SendingApart ==
  \A c \in Candidates \ Raced("executions"), d, e \in Executors :
    c \in Sending(d) /\ c \in Sending(e) => d = e

SentRecords == SendingApart /\ \A e \in Executors : SentOK(e)

\* Nobody holds anything that could bring a withdrawn plan back.
PlanClosed ==
  /\ plan.status = "cancelled" /\ Present # {}
  /\ worker.pc = "apply" => worker.payload = "keep"
  /\ \A h \in Handlers : hand[h].pc # "seal" /\ (hand[h].pc = "apply" => hand[h].payload = "keep")
  /\ \A e \in Executors : exec[e].pc = "idle" \/ (exec[e].pc = "apply" /\ exec[e].payload = "keep")

\* Nobody holds a withdrawn candidate.
CandidateClosed(c) ==
  /\ cand[c].status \in {"rejected", "cancelled"}
  /\ \A h \in Handlers : c \notin Writing(h)
  /\ \A e \in Executors : c \notin Sending(e)

Withdrawn ==
  /\ "plan" \in settled => PlanClosed
  /\ \A c \in Candidates \cap settled : CandidateClosed(c)

Inv == TypeInv /\ ApprovedTexts /\ SentRecords /\ Withdrawn

-----------------------------------------------------------------------------
(* Helpers of the model.                                                   *)

LEMMA OperationType ==
  ASSUME NEW op \in Operations
  PROVE  op.cand \in Candidates /\ op.text \in Texts
  BY OperationAssumption

\* Only an operation on an existing row gets by the check.
LEMMA MayWriteMeans ==
  ASSUME NEW op \in Operations, MayWrite(op)
  PROVE  /\ op.kind \in {"approve", "edit", "reject", "cancel", "cancel_plan"}
         /\ op.kind = "approve" =>
              /\ cand[op.cand].status \in {"pending_approval", "blocked"}
              /\ cand[op.cand].text # NoText
         /\ op.kind \in {"reject", "cancel"} =>
              cand[op.cand].status \in {"pending_approval", "blocked", "approved"}
         /\ op.kind = "edit" =>
              cand[op.cand].status \notin {"none", "sent", "rejected", "cancelled"}
  BY OperationAssumption DEF MayWrite

\* Only an edit changes the text, only an approval approves.
LEMMA WrittenRow ==
  ASSUME NEW row \in CandRow, NEW op \in Operations,
         op.kind \in {"approve", "edit", "reject", "cancel"}
  PROVE  /\ Written(row, op) \in CandRow
         /\ op.kind = "approve" => Written(row, op).status = "approved"
         /\ op.kind # "approve" => Written(row, op).status \notin {"approved", "none"}
         /\ op.kind \in {"reject", "cancel"} =>
              Written(row, op).status \in {"rejected", "cancelled"}
         /\ Written(row, op).text = IF op.kind = "edit" THEN op.text ELSE row.text
  BY OperationAssumption DEF Written, CandRow, CandStatus

\* What a synchronisation writes.
LEMMA SyncedRow ==
  ASSUME plan \in PlanRow, NEW payload \in Payload
  PROVE  /\ Synced(payload) \in PlanRow
         /\ payload = "keep" => Synced(payload) = plan
  BY DEF Synced, PlanRow, PlanStatus, Payload

LEMMA PayloadType == SyncPayload \in Payload
  BY DEF SyncPayload, Payload

\* A closed plan with candidates is left as it is.
LEMMA ClosedIsKept ==
  ASSUME plan.status = "cancelled", Present # {}
  PROVE  SyncPayload = "keep"
  BY DEF SyncPayload

LEMMA IdleTypes ==
  IdleThread \in ThreadRow /\ IdleRun \in RunRow /\ Off.left = {}
  BY DEF IdleThread, ThreadRow, Payload, IdleRun, RunRow, RecordStatus, Off

LEMMA TypeInit == Init => TypeInv
  <1> SUFFICES ASSUME Init PROVE TypeInv
    OBVIOUS
  <1>1. Types
    BY IdleTypes, BoundAssumption, EditableAssumption DEF Init, Types, PlanRow, PlanStatus,
       CandRow, CandStatus, RecordStatus, WorkerRow, Off, Payload
  <1> QED
    BY <1>1 DEF Init, Types, TypeInv, RowsOK, Approved, WorkerOK, Off, HandOK, IdleThread, ExecOK,
       IdleRun, Sending

-----------------------------------------------------------------------------
(* Types: steps of the worker and the handlers.                            *)

LEMMA ReadingType ==
  ASSUME NEW i \in DOMAIN Readings
  PROVE  Readings[i].cand \in Candidates
  <1> DEFINE R == [cand : Candidates, source : STRING, allowed : BOOLEAN, noise : Nat, comment : Comment]
  <1>1. Readings \in Seq(R)
    BY ReadingAssumption
  <1> HIDE DEF R
  <1>2. Readings[i] \in R
    BY <1>1
  <1> QED
    BY <1>2 DEF R

\* The worker takes readings that may be answered.
LEMMA ScannedMayBeAnswered ==
  ASSUME NEW S \in ScannedComments
  PROVE  S \subseteq DOMAIN Readings /\ \A i \in S : Readings[i].allowed
  BY DEF ScannedComments

\* A step that leaves the rows of candidates alone needs to be looked at only where it
\* changes a handler, an execution or the worker.
LEMMA TypeFrame ==
  ASSUME TypeInv, Types', cand' = cand, worker'.left \subseteq worker.left,
         \A h \in Handlers : hand'[h] = hand[h] \/ hand'[h].pc # "write",
         exec' = exec
  PROVE  TypeInv'
  BY DEF TypeInv, RowsOK, Approved, WorkerOK, HandOK, ExecOK, Sending

LEMMA GenerateTypes ==
  ASSUME TypeInv, Generate
  PROVE  TypeInv'
  <1>1. PICK S \in ScannedComments : worker' = [Off EXCEPT !.pc = "on", !.left = S, !.rules = rules]
    BY DEF Generate
  <1>2. PICK automatic \in BOOLEAN :
          plan' = IF plan.status # "none" THEN plan
                  ELSE [status |-> IF automatic THEN "approved" ELSE "pending_approval",
                        approver |-> FALSE, automatic |-> automatic]
    BY DEF Generate
  <1>3. plan' \in PlanRow
    BY <1>2 DEF TypeInv, Types, PlanRow, PlanStatus
  <1>4. worker' \in WorkerRow
    BY <1>1, ScannedMayBeAnswered DEF TypeInv, Types, WorkerRow, Off, Payload
  <1>5. Types'
    BY <1>3, <1>4, BoundAssumption DEF TypeInv, Types, Generate, outside
  <1>6. WorkerOK'
    BY <1>1, ScannedMayBeAnswered DEF WorkerOK, Off
  <1> QED
    BY <1>5, <1>6 DEF Generate, TypeInv, RowsOK, Approved, HandOK, ExecOK, Sending

\* A candidate that is made has a text if it is approved; those that exist stay.
LEMMA ProposeTypes ==
  ASSUME TypeInv, NEW i \in DOMAIN Readings, Propose(i)
  PROVE  /\ TypeInv'
         /\ \A c \in Candidates : cand[c].status # "none" => cand'[c] = cand[c]
         /\ \A c \in Candidates : approved[c] \subseteq approved'[c]
         /\ \A c \in Candidates : cand'[c] # cand[c] /\ cand'[c].status = "approved"
                                  => cand'[c].text \in approved'[c]
  <1> DEFINE k == Readings[i].cand
  <1>1. k \in Candidates
    BY ReadingType
  <1>2. /\ UNCHANGED <<plan, record, history, posted, rules, hand, exec, raced, settled,
                       ops, runs, generations, crashes>>
        /\ worker' = [worker EXCEPT !.left = @ \ {i}]
    BY DEF Propose, outside, bounds
  <1>3. \/ UNCHANGED <<cand, approved>>
        \/ /\ cand[k].status = "none"
           /\ \E row \in CandRow :
                /\ cand' = [cand EXCEPT ![k] = row] /\ row.status # "none"
                /\ row.status = "approved" => row.text \in Texts /\ row.text \in approved'[k]
           /\ \A c \in Candidates : approved[c] \subseteq approved'[c]
           /\ approved' \in [Candidates -> SUBSET Texts]
    <2>1. CASE ~Wanted(i)
      BY <2>1 DEF Propose
    <2>2. CASE Wanted(i) /\ BlockCandidate(k)
      <3>1. [status |-> "blocked", text |-> NoText, reason |-> TRUE] \in CandRow
        BY DEF CandRow, CandStatus
      <3> QED
        BY <2>2, <3>1 DEF Wanted, BlockCandidate, TypeInv, Types
    <2>3. CASE Wanted(i) /\ RenderCandidate(k)
      <3>1. PICK t \in Rendered :
              /\ cand' = [cand EXCEPT ![k].status = IF plan.automatic THEN "approved"
                                                    ELSE "pending_approval",
                                      ![k].text = t]
              /\ approved' = IF plan.automatic THEN [approved EXCEPT ![k] = @ \cup {t}] ELSE approved
        BY <2>3 DEF RenderCandidate
      <3>2. t \in Texts /\ cand[k] \in CandRow
        BY <1>1, TextAssumption DEF TypeInv, Types
      <3> DEFINE row == [cand[k] EXCEPT !.status = IF plan.automatic THEN "approved"
                                                    ELSE "pending_approval", !.text = t]
      <3>3. /\ row \in CandRow /\ row.status # "none" /\ row.text = t
            /\ row.status = "approved" => plan.automatic
        BY <3>2 DEF CandRow, CandStatus
      <3>4. cand' = [cand EXCEPT ![k] = row]
        BY <1>1, <3>1 DEF TypeInv, Types, CandRow
      <3>5. /\ approved' \in [Candidates -> SUBSET Texts]
            /\ \A c \in Candidates : approved[c] \subseteq approved'[c]
            /\ plan.automatic => t \in approved'[k]
        BY <1>1, <3>1, <3>2 DEF TypeInv, Types
      <3> HIDE DEF row, k
      <3> QED
        BY <2>3, <3>2, <3>3, <3>4, <3>5 DEF Wanted, k
    <2> QED
      BY <2>1, <2>2, <2>3 DEF Propose
  <1>4. /\ \A c \in Candidates : cand[c].status # "none" => cand'[c] = cand[c]
        /\ \A c \in Candidates : approved[c] \subseteq approved'[c]
        /\ \A c \in Candidates : cand'[c] # cand[c] /\ cand'[c].status = "approved"
                                 => cand'[c].text \in approved'[c] /\ cand'[c].text \in Texts
        /\ cand' \in [Candidates -> CandRow] /\ approved' \in [Candidates -> SUBSET Texts]
    BY <1>1, <1>3 DEF TypeInv, Types
  <1>5. worker' \in WorkerRow /\ worker'.left \subseteq worker.left
    BY <1>2 DEF TypeInv, Types, WorkerRow
  <1>6. Types'
    BY <1>2, <1>4, <1>5 DEF TypeInv, Types
  <1>7. RowsOK' /\ WorkerOK'
    BY <1>4, <1>5 DEF TypeInv, RowsOK, Approved, WorkerOK
  <1>8. ASSUME NEW h \in Handlers PROVE HandOK(h)'
    BY <1>2, <1>4, OperationType DEF TypeInv, HandOK
  <1>9. ASSUME NEW e \in Executors PROVE ExecOK(e)'
    <2>1. Sending(e) \subseteq Candidates
      BY DEF TypeInv, Types, RunRow, Sending
    <2> QED
      BY <1>2, <1>4, <2>1 DEF TypeInv, ExecOK, Sending
  <1> QED
    BY <1>4, <1>6, <1>7, <1>8, <1>9 DEF TypeInv

\* The steps that write the plan, a rule, or where a handler is.
LEMMA ThreadUpdate ==
  ASSUME Types, NEW h \in Handlers, NEW row \in ThreadRow, hand' = [hand EXCEPT ![h] = row]
  PROVE  /\ hand' \in [Handlers -> ThreadRow] /\ hand'[h] = row
         /\ \A g \in Handlers \ {h} : hand'[g] = hand[g]
  BY DEF Types

\* The ways a handler goes on.
LEMMA ThreadRows ==
  ASSUME Types, NEW h \in Handlers
  PROVE  /\ \A pc \in {"sync", "seal"} :
              /\ [hand[h] EXCEPT !.pc = pc] \in ThreadRow
              /\ [hand[h] EXCEPT !.pc = pc].pc = pc
         /\ \A pc \in {"write", "sync"}, op \in Operations :
              /\ [hand[h] EXCEPT !.pc = pc, !.op = op] \in ThreadRow
              /\ [hand[h] EXCEPT !.pc = pc, !.op = op].pc = pc
              /\ [hand[h] EXCEPT !.pc = pc, !.op = op].op = op
         /\ \A payload \in Payload :
              /\ [hand[h] EXCEPT !.pc = "apply", !.payload = payload] \in ThreadRow
              /\ [hand[h] EXCEPT !.pc = "apply", !.payload = payload].pc = "apply"
              /\ [hand[h] EXCEPT !.pc = "apply", !.payload = payload].payload = payload
  <1>1. hand[h] \in ThreadRow
    BY DEF Types
  <1> QED
    BY <1>1 DEF ThreadRow

LEMMA GenerationEndTypes ==
  ASSUME TypeInv, GenerationRaises \/ GenerationSync
  PROVE  TypeInv'
  <1>1. UNCHANGED <<cand, record, history, posted, rules, hand, exec, approved, raced, settled,
                    ops, runs, generations, crashes>>
    BY DEF GenerationRaises, GenerationSync, outside, bounds
  <1>2. /\ worker' = Off \/ worker' = [worker EXCEPT !.pc = "apply", !.payload = SyncPayload]
        /\ plan' = plan \/ plan' = Synced(worker.payload)
    BY DEF GenerationRaises, GenerationSync
  <1>3. worker' \in WorkerRow /\ worker'.left \subseteq worker.left
    <2>1. Off \in WorkerRow /\ Off.left = {}
      BY DEF Off, WorkerRow, Payload
    <2>2. worker \in WorkerRow
      BY DEF TypeInv, Types
    <2>3. CASE worker' = [worker EXCEPT !.pc = "apply", !.payload = SyncPayload]
      BY <2>2, <2>3, PayloadType DEF WorkerRow
    <2> QED
      BY <1>2, <2>1, <2>3
  <1>4. plan' \in PlanRow
    BY <1>2, SyncedRow DEF TypeInv, Types, WorkerRow
  <1>5. Types'
    BY <1>1, <1>3, <1>4 DEF TypeInv, Types
  <1> QED
    BY <1>1, <1>3, <1>5, TypeFrame

LEMMA EditRuleTypes ==
  ASSUME TypeInv, NEW k \in Edited, EditRule(k)
  PROVE  TypeInv'
  <1>1. rules' \subseteq DOMAIN Rules /\ ops' \in 0..MaxOps
    BY EditableAssumption, BoundAssumption DEF TypeInv, Types, EditRule
  <1>2. Types'
    BY <1>1 DEF TypeInv, Types, EditRule
  <1> QED
    BY <1>2, TypeFrame DEF EditRule

\* What the steps of handlers that write no candidate leave alone.
LEMMA HandlerTypes ==
  ASSUME TypeInv, NEW h \in Handlers,
         CancelPlan(h) \/ SyncRead(h) \/ SyncWrite(h) \/ ApprovePlan(h)
  PROVE  TypeInv'
  <1>1. UNCHANGED <<cand, record, history, posted, rules, worker, exec, approved, raced,
                    ops, runs, generations, crashes>>
    BY DEF CancelPlan, SyncRead, SyncWrite, ApprovePlan, outside, bounds
  <1>2. PICK row \in ThreadRow : hand' = [hand EXCEPT ![h] = row] /\ row.pc # "write"
    <2>1. CASE hand' = [hand EXCEPT ![h] = IdleThread]
      BY <2>1, IdleTypes DEF IdleThread
    <2>2. CASE hand' = [hand EXCEPT ![h].pc = "apply", ![h].payload = SyncPayload]
      <3>1. hand' = [hand EXCEPT ![h] = [hand[h] EXCEPT !.pc = "apply", !.payload = SyncPayload]]
        BY <2>2 DEF TypeInv, Types
      <3> QED  BY <3>1, ThreadRows, PayloadType DEF TypeInv
    <2>3. CASE hand' = [hand EXCEPT ![h].pc = "seal"]
      <3>1. hand' = [hand EXCEPT ![h] = [hand[h] EXCEPT !.pc = "seal"]]
        BY <2>3 DEF TypeInv, Types
      <3> QED  BY <3>1, ThreadRows DEF TypeInv
    <2> QED
      BY <2>1, <2>2, <2>3 DEF CancelPlan, SyncRead, SyncWrite, ApprovePlan, Thread, Finish
  <1>3. /\ hand' \in [Handlers -> ThreadRow]
        /\ \A g \in Handlers : hand'[g] = hand[g] \/ hand'[g].pc # "write"
    BY <1>2, ThreadUpdate DEF TypeInv
  <1>4. plan' \in PlanRow
    <2>1. plan \in PlanRow /\ hand[h].payload \in Payload
      BY DEF TypeInv, Types, ThreadRow
    <2>2. Synced(hand[h].payload) \in PlanRow
      BY <2>1, SyncedRow
    <2>3. /\ [plan EXCEPT !.status = "cancelled"] \in PlanRow
          /\ [plan EXCEPT !.status = "approved", !.approver = TRUE] \in PlanRow
      BY <2>1 DEF PlanRow, PlanStatus
    <2> QED
      BY <2>1, <2>2, <2>3 DEF CancelPlan, SyncRead, SyncWrite, ApprovePlan
  <1>5. settled' \subseteq Candidates \cup {"plan"}
    BY DEF CancelPlan, SyncRead, SyncWrite, ApprovePlan, TypeInv, Types
  <1>6. Types'
    BY <1>1, <1>3, <1>4, <1>5 DEF TypeInv, Types
  <1> QED
    BY <1>1, <1>3, <1>6, TypeFrame

\* A request writes nothing yet; what it is going to write passed its check.
LEMMA RequestTypes ==
  ASSUME TypeInv, NEW h \in Handlers, NEW op \in Operations, Request(h, op)
  PROVE  TypeInv'
  <1>1. /\ UNCHANGED <<plan, cand, record, history, posted, rules, worker, exec, raced, settled,
                       runs, generations, crashes>>
        /\ ops' = ops + 1 /\ ops < MaxOps
    BY DEF Request, outside
  <1>2. \/ MayWrite(op) /\ hand' = [hand EXCEPT ![h].pc = "write", ![h].op = op]
        \/ hand' = [hand EXCEPT ![h].pc = "sync", ![h].op = op]
        \/ hand' = hand
    BY DEF Request
  <1>3. /\ hand' \in [Handlers -> ThreadRow]
        /\ \A g \in Handlers \ {h} : hand'[g] = hand[g]
        /\ hand'[h] = hand[h] \/ hand'[h].pc = "sync"
           \/ (MayWrite(op) /\ hand'[h].pc = "write" /\ hand'[h].op = op)
    <2>1. CASE hand' = hand
      BY <2>1 DEF TypeInv, Types
    <2>2. CASE hand' = [hand EXCEPT ![h].pc = "sync", ![h].op = op]
      <3> DEFINE row == [hand[h] EXCEPT !.pc = "sync", !.op = op]
      <3>1. hand' = [hand EXCEPT ![h] = row]
        BY <2>2 DEF TypeInv, Types
      <3>2. row \in ThreadRow /\ row.pc = "sync"
        BY ThreadRows DEF TypeInv
      <3> HIDE DEF row
      <3> QED  BY <3>1, <3>2, ThreadUpdate DEF TypeInv
    <2>3. CASE MayWrite(op) /\ hand' = [hand EXCEPT ![h].pc = "write", ![h].op = op]
      <3> DEFINE row == [hand[h] EXCEPT !.pc = "write", !.op = op]
      <3>1. hand' = [hand EXCEPT ![h] = row]
        BY <2>3 DEF TypeInv, Types
      <3>2. row \in ThreadRow /\ row.pc = "write" /\ row.op = op
        BY ThreadRows DEF TypeInv
      <3> HIDE DEF row
      <3> QED  BY <2>3, <3>1, <3>2, ThreadUpdate DEF TypeInv
    <2> QED
      BY <1>2, <2>1, <2>2, <2>3
  <1>4. approved' \in [Candidates -> SUBSET Texts]
    <2>1. op.kind = "approve" /\ MayWrite(op) => cand[op.cand].text \in Texts
      BY MayWriteMeans, OperationType DEF TypeInv, Types, CandRow
    <2> QED
      BY <2>1, OperationType DEF Request, TypeInv, Types
  <1>5. Types'
    BY <1>1, <1>3, <1>4, BoundAssumption DEF TypeInv, Types
  <1>6. ASSUME NEW g \in Handlers PROVE HandOK(g)'
    <2>1. CASE hand'[g] = hand[g] \/ hand'[g].pc = "sync"
      BY <1>1, <2>1 DEF TypeInv, HandOK
    <2>2. CASE g = h /\ MayWrite(op) /\ hand'[g].pc = "write" /\ hand'[g].op = op
      <3>1. cand[op.cand] \in CandRow
        BY OperationType DEF TypeInv, Types
      <3> QED
        BY <1>1, <2>2, <3>1, MayWriteMeans DEF HandOK, CandRow
    <2> QED
      BY <1>3, <2>1, <2>2
  <1> QED
    BY <1>1, <1>5, <1>6 DEF TypeInv, RowsOK, Approved, WorkerOK, ExecOK, Sending

\* A handler's write keeps every candidate's row, and its text if it approves.
LEMMA WriteTypes ==
  ASSUME TypeInv, NEW h \in Handlers, WriteCandidate(h)
  PROVE  /\ TypeInv'
         /\ hand[h].op \in Operations
         /\ hand[h].op.kind \in {"approve", "edit", "reject", "cancel"}
         /\ cand' = [cand EXCEPT ![hand[h].op.cand] = Written(@, hand[h].op)]
  <1> DEFINE op == hand[h].op
             row == Written(cand[op.cand], op)
  <1>1. /\ op \in Operations /\ op.kind \in {"approve", "edit", "reject", "cancel"}
        /\ cand[op.cand].status # "none" /\ (op.kind = "approve" => cand[op.cand].text \in Texts)
        /\ op.cand \in Candidates /\ op.text \in Texts /\ hand[h].pc = "write"
    BY OperationType DEF WriteCandidate, TypeInv, HandOK
  <1>2. /\ UNCHANGED <<plan, record, history, posted, rules, worker, exec, approved,
                       ops, runs, generations, crashes>>
        /\ cand' = [cand EXCEPT ![op.cand] = row] /\ hand' = [hand EXCEPT ![h].pc = "sync"]
        /\ raced' \subseteq raced \cup {<<op.cand, "handlers">>}
        /\ settled' \subseteq settled \cup {op.cand}
    BY <1>1 DEF WriteCandidate, outside, bounds, Thread, TypeInv, Types
  <1>3. /\ row \in CandRow /\ row.status # "none"
        /\ row.status = "approved" => row.text \in Texts
        /\ row.text = IF op.kind = "edit" THEN op.text ELSE cand[op.cand].text
    <2>1. cand[op.cand] \in CandRow
      BY <1>1 DEF TypeInv, Types
    <2> QED
      BY <1>1, <2>1, WrittenRow
  <1> HIDE DEF row
  <1>4. Types'
    <2>1. hand' = [hand EXCEPT ![h] = [hand[h] EXCEPT !.pc = "sync"]]
      BY <1>2 DEF TypeInv, Types
    <2>2. hand' \in [Handlers -> ThreadRow]
      BY <2>1, ThreadRows, ThreadUpdate DEF TypeInv
    <2>3. /\ cand' \in [Candidates -> CandRow]
          /\ raced' \subseteq Candidates \X {"handlers", "executions"}
          /\ settled' \subseteq Candidates \cup {"plan"}
      BY <1>1, <1>2, <1>3 DEF TypeInv, Types
    <2> QED
      BY <1>2, <2>2, <2>3 DEF TypeInv, Types
  <1>5. RowsOK'
    BY <1>1, <1>2, <1>3 DEF TypeInv, Types, RowsOK, Approved
  <1>6. ASSUME NEW g \in Handlers PROVE HandOK(g)'
    <2>1. CASE hand'[g].pc = "write"
      <3>1. hand'[g] = hand[g]
        BY <1>2, <2>1 DEF TypeInv, Types, ThreadRow
      <3>2. \A c \in Candidates : /\ cand[c].status # "none" => cand'[c].status # "none"
                                  /\ cand[c].text \in Texts => cand'[c].text \in Texts
        BY <1>1, <1>2, <1>3 DEF TypeInv, Types
      <3> QED
        BY <2>1, <3>1, <3>2, OperationType DEF TypeInv, HandOK
    <2> QED  BY <2>1 DEF HandOK
  <1>7. ASSUME NEW e \in Executors PROVE ExecOK(e)'
    <2>1. Sending(e) \subseteq Candidates
      BY DEF TypeInv, Types, RunRow, Sending
    <2>2. \A c \in Candidates : cand[c].status # "none" => cand'[c].status # "none"
      BY <1>1, <1>2, <1>3 DEF TypeInv, Types
    <2> QED
      BY <1>2, <2>1, <2>2 DEF TypeInv, ExecOK, Sending
  <1>8. TypeInv'
    BY <1>2, <1>4, <1>5, <1>6, <1>7 DEF TypeInv, WorkerOK
  <1> QED
    BY <1>1, <1>8 DEF WriteCandidate

-----------------------------------------------------------------------------
(* What steps that concern one part leave of the others.                   *)

\* Approvals stay good while nobody writes a row or posts, and nobody takes up a text.
LEMMA ApprovedFrame ==
  ASSUME ApprovedTexts, cand' = cand, posted' = posted,
         \A c \in Candidates : approved[c] \subseteq approved'[c],
         raced \subseteq raced', hand' = hand \/ \A h \in Handlers : hand'[h] = hand[h] \/ hand'[h].pc # "write",
         \A e \in Executors, c \in Candidates :
           c \in Sending(e)' => c \in Sending(e) /\ exec'[e].text[c] = exec[e].text[c]
  PROVE  ApprovedTexts'
  <1> SUFFICES ASSUME NEW c \in Candidates, c \notin Raced("handlers")'
               PROVE  /\ cand[c].status = "approved" => cand[c].text \in approved'[c]
                      /\ \A h \in Handlers : c \in Writing(h)' /\ hand'[h].op.kind = "approve"
                                             => cand[c].text \in approved'[c]
                      /\ \A e \in Executors : c \in Sending(e)' => exec'[e].text[c] \in approved'[c]
                      /\ \A t \in Texts : posted[c][t] > 0 => t \in approved'[c]
    BY DEF ApprovedTexts
  <1>1. c \notin Raced("handlers")
    BY DEF Raced
  <1>2. \A h \in Handlers : c \in Writing(h)' => c \in Writing(h) /\ hand'[h] = hand[h]
    BY DEF Writing
  <1> QED
    BY <1>1, <1>2 DEF ApprovedTexts

\* Records stay good while no execution does anything.
LEMMA SentFrame ==
  ASSUME SentRecords, record' = record, exec' = exec, raced \subseteq raced'
  PROVE  SentRecords'
  <1>1. \A c \in Candidates : c \notin Raced("executions")' => c \notin Raced("executions")
    BY DEF Raced
  <1> QED
    BY <1>1 DEF SentRecords, SendingApart, SentOK, Sending

\* Of one execution's step only what it holds itself has to be looked at.
LEMMA SentStepFrame ==
  ASSUME SentRecords, record' = record, raced' = raced, NEW e \in Executors,
         \A d \in Executors \ {e} : exec'[d] = exec[d],
         Sending(e)' \subseteq Sending(e), SentOK(e)'
  PROVE  SentRecords'
  <1>1. ASSUME NEW d \in Executors, d # e
        PROVE  SentOK(d)' /\ Sending(d)' = Sending(d)
    BY <1>1 DEF SentRecords, SentOK, Sending, Raced
  <1>2. SendingApart'
    <2>1. \A d \in Executors : Sending(d)' \subseteq Sending(d)
      BY <1>1
    <2> QED
      BY <2>1 DEF SentRecords, SendingApart, Raced
  <1> QED
    BY <1>1, <1>2 DEF SentRecords

\* A withdrawn candidate stays one while no row is written and nobody takes it up.
LEMMA ClosedFrame ==
  ASSUME NEW c \in Candidates, CandidateClosed(c), cand'[c] = cand[c],
         \A h \in Handlers : c \notin Writing(h)', \A e \in Executors : c \notin Sending(e)'
  PROVE  CandidateClosed(c)'
  BY DEF CandidateClosed

\* Candidates never vanish.
LEMMA PresentStays ==
  ASSUME Present # {}, \A c \in Candidates : cand[c].status # "none" => cand'[c].status # "none"
  PROVE  Present' # {}
  BY DEF Present

LEMMA ClosedPlanFrame ==
  ASSUME PlanClosed, plan'.status = plan.status, Present' # {},
         worker' = worker \/ (worker'.pc = "apply" => worker'.payload = "keep"),
         \A h \in Handlers : \/ hand'[h] = hand[h]
                             \/ /\ hand'[h].pc # "seal"
                                /\ hand'[h].pc = "apply" => hand'[h].payload = "keep",
         \A e \in Executors : \/ exec'[e] = exec[e] \/ exec'[e].pc = "idle"
                              \/ (exec'[e].pc = "apply" /\ exec'[e].payload = "keep")
  PROVE  PlanClosed'
  BY DEF PlanClosed

-----------------------------------------------------------------------------
(* Steps of the worker and the handlers.                                   *)

LEMMA InvInit == Init => Inv
  <1> SUFFICES ASSUME Init PROVE Inv
    OBVIOUS
  <1>1. \A e \in Executors : Sending(e) = {} /\ exec[e].pc = "idle" /\ exec[e].sent = {}
    BY DEF Init, IdleRun, Sending
  <1>2. ApprovedTexts
    BY <1>1 DEF Init, ApprovedTexts, Writing, IdleThread
  <1>3. SentRecords
    BY <1>1 DEF SentRecords, SendingApart, SentOK, BeforeRecord
  <1>4. Withdrawn
    BY DEF Init, Withdrawn
  <1> QED
    BY <1>2, <1>3, <1>4, TypeInit DEF Inv

LEMMA GenerateStep ==
  ASSUME Inv, Generate
  PROVE  Inv'
  <1>1. /\ UNCHANGED <<cand, record, history, posted, hand, exec, approved, raced, settled>>
        /\ plan.status # "none" => plan' = plan
        /\ worker'.pc = "on"
    BY DEF Generate, outside, Off
  <1>2. TypeInv'
    BY GenerateTypes DEF Inv
  <1>3. ApprovedTexts' /\ SentRecords'
    BY <1>1, ApprovedFrame, SentFrame DEF Inv, Sending
  <1>4. PlanClosed => PlanClosed'
    BY <1>1 DEF PlanClosed, Present
  <1>5. ASSUME NEW c \in Candidates, CandidateClosed(c) PROVE CandidateClosed(c)'
    BY <1>1, <1>5 DEF CandidateClosed, Writing, Sending
  <1> QED
    BY <1>1, <1>2, <1>3, <1>4, <1>5 DEF Inv, Withdrawn

LEMMA ProposeStep ==
  ASSUME Inv, NEW i \in DOMAIN Readings, Propose(i)
  PROVE  Inv'
  <1>1. /\ UNCHANGED <<plan, record, history, posted, hand, exec, raced, settled>>
        /\ worker.pc = "on" /\ worker'.pc = "on"
    BY DEF Propose, outside, Inv, TypeInv, Types, WorkerRow
  <1>2. /\ TypeInv'
        /\ \A c \in Candidates : cand[c].status # "none" => cand'[c] = cand[c]
        /\ \A c \in Candidates : approved[c] \subseteq approved'[c]
        /\ \A c \in Candidates : cand'[c] # cand[c] /\ cand'[c].status = "approved"
                                 => cand'[c].text \in approved'[c]
    BY ProposeTypes DEF Inv
  <1>3. ASSUME NEW c \in Candidates, c \notin Raced("handlers")'
        PROVE  /\ cand'[c].status = "approved" => cand'[c].text \in approved'[c]
               /\ \A h \in Handlers : c \in Writing(h)' /\ hand'[h].op.kind = "approve"
                                      => cand'[c].text \in approved'[c]
               /\ \A e \in Executors : c \in Sending(e)' => exec'[e].text[c] \in approved'[c]
               /\ \A t \in Texts : posted'[c][t] > 0 => t \in approved'[c]
    <2>1. c \notin Raced("handlers")
      BY <1>1, <1>3 DEF Raced
    <2>2. \A h \in Handlers : c \in Writing(h) => cand'[c] = cand[c]
      BY <1>2 DEF Inv, TypeInv, HandOK, Writing
    <2> QED
      BY <1>1, <1>2, <2>1, <2>2 DEF Inv, ApprovedTexts, Writing, Sending
  <1>4. ApprovedTexts'
    BY <1>3 DEF ApprovedTexts
  <1>5. SentRecords'
    BY <1>1, SentFrame DEF Inv
  <1>6. PlanClosed => PlanClosed'
    BY <1>1, <1>2, PresentStays DEF PlanClosed
  <1>7. ASSUME NEW c \in Candidates, CandidateClosed(c) PROVE CandidateClosed(c)'
    BY <1>1, <1>2, <1>7 DEF CandidateClosed, Writing, Sending
  <1> QED
    BY <1>1, <1>2, <1>4, <1>5, <1>6, <1>7 DEF Inv, Withdrawn

LEMMA GenerationEndStep ==
  ASSUME Inv, GenerationRaises \/ GenerationSync
  PROVE  Inv'
  <1>1. UNCHANGED <<cand, record, history, posted, hand, exec, approved, raced, settled>>
    BY DEF GenerationRaises, GenerationSync, outside
  <1>2. TypeInv'
    BY GenerationEndTypes DEF Inv
  <1>3. ApprovedTexts' /\ SentRecords'
    BY <1>1, ApprovedFrame, SentFrame DEF Inv, Sending
  <1>4. ASSUME PlanClosed PROVE PlanClosed'
    <2>1. SyncPayload = "keep"
      BY <1>4, ClosedIsKept DEF PlanClosed
    <2>2. worker.pc = "apply" => Synced(worker.payload) = plan
      BY <1>4, SyncedRow DEF PlanClosed, Inv, TypeInv, Types, WorkerRow
    <2>3. plan' = plan
      BY <2>2 DEF GenerationRaises, GenerationSync
    <2>4. worker'.pc = "apply" => worker'.payload = "keep"
      <3>1. CASE worker' = Off
        BY <3>1 DEF Off
      <3>2. CASE worker' = [worker EXCEPT !.pc = "apply", !.payload = SyncPayload]
        BY <2>1, <3>2 DEF Inv, TypeInv, Types, WorkerRow
      <3> QED
        BY <3>1, <3>2 DEF GenerationRaises, GenerationSync
    <2> QED
      BY <1>1, <1>4, <2>3, <2>4 DEF PlanClosed, Present
  <1>5. ASSUME NEW c \in Candidates, CandidateClosed(c) PROVE CandidateClosed(c)'
    BY <1>1, <1>5 DEF CandidateClosed, Writing, Sending
  <1> QED
    BY <1>1, <1>2, <1>3, <1>4, <1>5 DEF Inv, Withdrawn

LEMMA EditRuleStep ==
  ASSUME Inv, NEW k \in Edited, EditRule(k)
  PROVE  Inv'
  <1>1. UNCHANGED <<plan, cand, record, posted, worker, hand, exec, approved, raced, settled>>
    BY DEF EditRule
  <1>2. TypeInv'
    BY EditRuleTypes DEF Inv
  <1>3. ApprovedTexts' /\ SentRecords'
    BY <1>1, ApprovedFrame, SentFrame DEF Inv, Sending
  <1>4. Withdrawn'
    BY <1>1 DEF Inv, Withdrawn, PlanClosed, CandidateClosed, Present, Writing, Sending
  <1> QED
    BY <1>2, <1>3, <1>4 DEF Inv

\* What a request approves is the text the row has while it is read.
LEMMA RequestStep ==
  ASSUME Inv, NEW h \in Handlers, NEW op \in Operations, Request(h, op)
  PROVE  Inv'
  <1>1. UNCHANGED <<plan, cand, record, history, posted, worker, exec, raced, settled>>
    BY DEF Request, outside
  <1>2. TypeInv'
    BY RequestTypes DEF Inv
  <1>3. /\ \A g \in Handlers \ {h} : hand'[g] = hand[g]
        /\ \/ hand' = hand
           \/ hand'[h].pc = "sync"
           \/ /\ MayWrite(op) /\ hand'[h].pc = "write" /\ hand'[h].op = op
              /\ approved' = IF op.kind = "approve"
                             THEN [approved EXCEPT ![op.cand] = @ \cup {cand[op.cand].text}]
                             ELSE approved
    BY DEF Request, Inv, TypeInv, Types, ThreadRow
  <1>4. \A c \in Candidates : approved[c] \subseteq approved'[c]
    BY DEF Request, Inv, TypeInv, Types
  <1>5. ASSUME NEW c \in Candidates, c \notin Raced("handlers")
        PROVE  /\ cand[c].status = "approved" => cand[c].text \in approved'[c]
               /\ \A g \in Handlers : c \in Writing(g)' /\ hand'[g].op.kind = "approve"
                                      => cand[c].text \in approved'[c]
               /\ \A e \in Executors : c \in Sending(e) => exec[e].text[c] \in approved'[c]
               /\ \A t \in Texts : posted[c][t] > 0 => t \in approved'[c]
    <2>1. ASSUME NEW g \in Handlers, c \in Writing(g)', hand'[g].op.kind = "approve"
          PROVE  cand[c].text \in approved'[c]
      <3>1. CASE hand'[g] = hand[g]
        BY <1>4, <1>5, <2>1, <3>1 DEF Inv, ApprovedTexts, Writing
      <3>2. CASE g = h /\ hand'[h] # hand[h]
        BY <1>3, <2>1, <3>2, OperationType DEF Writing, Inv, TypeInv, Types
      <3> QED
        BY <1>3, <3>1, <3>2
    <2> QED
      BY <1>4, <1>5, <2>1 DEF Inv, ApprovedTexts
  <1>6. ApprovedTexts'
    BY <1>1, <1>5 DEF ApprovedTexts, Raced, Sending
  <1>7. SentRecords'
    BY <1>1, SentFrame DEF Inv
  <1>8. PlanClosed => PlanClosed'
    BY <1>1, <1>3, ClosedPlanFrame DEF PlanClosed, Present
  <1>9. ASSUME NEW c \in Candidates, CandidateClosed(c) PROVE CandidateClosed(c)'
    <2>1. MayWrite(op) => op.kind = "cancel_plan" \/ op.cand # c
      BY <1>9, MayWriteMeans DEF CandidateClosed
    <2>2. \A g \in Handlers : c \notin Writing(g)'
      BY <1>3, <1>9, <2>1 DEF CandidateClosed, Writing
    <2> QED
      BY <1>1, <1>9, <2>2, ClosedFrame DEF CandidateClosed, Sending
  <1> QED
    BY <1>1, <1>2, <1>6, <1>7, <1>8, <1>9 DEF Inv, Withdrawn

\* Two handlers that are about to write one row race; the first write that lands marks
\* the candidate.
LEMMA WriteStep ==
  ASSUME Inv, NEW h \in Handlers, WriteCandidate(h)
  PROVE  Inv'
  <1> DEFINE op == hand[h].op
             row == Written(cand[op.cand], op)
  <1>1. /\ TypeInv' /\ op \in Operations /\ op.kind \in {"approve", "edit", "reject", "cancel"}
        /\ cand' = [cand EXCEPT ![op.cand] = row]
        /\ op.cand \in Candidates /\ op.text \in Texts
    BY WriteTypes, OperationType DEF Inv
  <1>2. /\ UNCHANGED <<plan, record, posted, worker, exec, approved>>
        /\ hand[h].pc = "write" /\ raced \subseteq raced'
        /\ \A g \in Handlers \ {h} : hand'[g] = hand[g]
        /\ hand'[h].pc = "sync"
    BY DEF WriteCandidate, outside, Thread, Inv, TypeInv, Types, ThreadRow
  <1>3. /\ row \in CandRow /\ row.status # "none"
        /\ row.status = "approved" => op.kind = "approve"
        /\ row.text = IF op.kind = "edit" THEN op.text ELSE cand[op.cand].text
        /\ op.kind \in {"reject", "cancel"} => row.status \in {"rejected", "cancelled"}
    <2>1. cand[op.cand] \in CandRow
      BY <1>1 DEF Inv, TypeInv, Types
    <2> QED
      BY <1>1, <2>1, WrittenRow
  <1>4. op.cand \in Writing(h)
    BY <1>1, <1>2 DEF Writing
  <1> HIDE DEF row
  <1>5. \A c \in Candidates : c # op.cand => cand'[c] = cand[c]
    BY <1>1 DEF Inv, TypeInv, Types
  <1>6. cand'[op.cand] = row
    BY <1>1 DEF Inv, TypeInv, Types
  <1>7. ASSUME NEW c \in Candidates, c \notin Raced("handlers")'
        PROVE  /\ cand'[c].status = "approved" => cand'[c].text \in approved[c]
               /\ \A g \in Handlers : c \in Writing(g)' /\ hand'[g].op.kind = "approve"
                                      => cand'[c].text \in approved[c]
               /\ \A e \in Executors : c \in Sending(e) => exec[e].text[c] \in approved[c]
               /\ \A t \in Texts : posted[c][t] > 0 => t \in approved[c]
    <2>1. c \notin Raced("handlers")
      BY <1>2, <1>7 DEF Raced
    <2>2. CASE c # op.cand
      BY <1>2, <1>5, <2>1, <2>2 DEF Inv, ApprovedTexts, Writing
    <2>3. CASE c = op.cand
      <3>1. \A g \in Handlers \ {h} : c \notin Writing(g)
        BY <1>7, <2>3 DEF WriteCandidate, Raced
      <3>2. \A g \in Handlers : c \notin Writing(g)'
        BY <1>2, <3>1 DEF Writing
      <3>3. row.status = "approved" => row.text \in approved[c]
        BY <1>3, <1>4, <2>1, <2>3 DEF Inv, ApprovedTexts
      <3> QED
        BY <1>6, <2>1, <2>3, <3>2, <3>3 DEF Inv, ApprovedTexts
    <2> QED  BY <2>2, <2>3
  <1>8. ApprovedTexts'
    BY <1>2, <1>7 DEF ApprovedTexts, Sending
  <1>9. SentRecords'
    BY <1>2, SentFrame DEF Inv
  <1>10. ASSUME PlanClosed PROVE PlanClosed'
    <2>1. Present' # {}
      BY <1>3, <1>5, <1>6, <1>10, PresentStays DEF PlanClosed
    <2> QED
      BY <1>2, <1>10, <2>1, ClosedPlanFrame
  <1>11. ASSUME NEW c \in Candidates, CandidateClosed(c) PROVE CandidateClosed(c)'
    <2>1. c # op.cand
      BY <1>4, <1>11 DEF CandidateClosed
    <2>2. \A g \in Handlers : c \notin Writing(g)'
      BY <1>2, <1>11 DEF CandidateClosed, Writing
    <2> QED
      BY <1>2, <1>5, <1>11, <2>1, <2>2, ClosedFrame DEF CandidateClosed, Sending
  <1>12. ASSUME NEW c \in Candidates, c = op.cand, Alone(h), op.kind \in {"reject", "cancel"}
         PROVE  CandidateClosed(c)'
    <2>1. \A g \in Handlers : c \notin Writing(g)'
      BY <1>2, <1>12 DEF Alone, Writing
    <2>2. \A e \in Executors : c \notin Sending(e)'
      BY <1>2, <1>12 DEF Alone, Sending, Inv, TypeInv, ExecOK
    <2> QED
      BY <1>3, <1>6, <1>12, <2>1, <2>2 DEF CandidateClosed
  <1>13. settled' = settled \/ (Alone(h) /\ op.kind \in {"reject", "cancel"}
                                /\ settled' = settled \cup {op.cand})
    BY DEF WriteCandidate
  <1>14. "plan" \in settled' => PlanClosed'
    BY <1>1, <1>10, <1>13, PlanAssumption DEF Inv, Withdrawn
  <1>15. ASSUME NEW c \in Candidates, c \in settled' PROVE CandidateClosed(c)'
    BY <1>11, <1>12, <1>13, <1>15 DEF Inv, Withdrawn
  <1>16. Withdrawn'
    BY <1>14, <1>15 DEF Withdrawn
  <1> QED
    BY <1>1, <1>8, <1>9, <1>16 DEF Inv

\* A plan that is cancelled while everybody else rests is held by nobody.
LEMMA CancelPlanStep ==
  ASSUME Inv, NEW h \in Handlers, CancelPlan(h)
  PROVE  Inv'
  <1>1. /\ UNCHANGED <<cand, record, posted, worker, exec, approved, raced>>
        /\ plan' = [plan EXCEPT !.status = "cancelled"]
        /\ hand' = [hand EXCEPT ![h] = IdleThread]
    BY DEF CancelPlan, outside, Finish
  <1>2. TypeInv'
    BY HandlerTypes DEF Inv
  <1>3. /\ \A g \in Handlers \ {h} : hand'[g] = hand[g]
        /\ hand'[h].pc = "idle" /\ plan'.status = "cancelled"
    BY <1>1 DEF Inv, TypeInv, Types, PlanRow, IdleThread
  <1>4. ApprovedTexts' /\ SentRecords'
    BY <1>1, <1>3, ApprovedFrame, SentFrame DEF Inv, Sending
  <1>5. PlanClosed => PlanClosed'
    BY <1>1, <1>3 DEF PlanClosed, Present
  <1>6. Alone(h) /\ Present # {} => PlanClosed'
    BY <1>1, <1>3 DEF PlanClosed, Alone, Present, Off
  <1>7. ASSUME NEW c \in Candidates, CandidateClosed(c) PROVE CandidateClosed(c)'
    <2>1. \A g \in Handlers : c \notin Writing(g)'
      BY <1>3, <1>7 DEF CandidateClosed, Writing
    <2> QED
      BY <1>1, <1>7, <2>1, ClosedFrame DEF CandidateClosed, Sending
  <1>8. Withdrawn'
    BY <1>5, <1>6, <1>7, PlanAssumption DEF CancelPlan, Inv, Withdrawn
  <1> QED
    BY <1>2, <1>4, <1>8 DEF Inv

\* Synchronisations leave a withdrawn plan as it is, and approve_reply_plan stops there.
LEMMA HandlerSyncStep ==
  ASSUME Inv, NEW h \in Handlers, SyncRead(h) \/ SyncWrite(h) \/ ApprovePlan(h)
  PROVE  Inv'
  <1>1. UNCHANGED <<cand, record, posted, worker, exec, approved, raced, settled>>
    BY DEF SyncRead, SyncWrite, ApprovePlan, outside
  <1>2. TypeInv'
    BY HandlerTypes DEF Inv
  <1>3. /\ \A g \in Handlers \ {h} : hand'[g] = hand[g]
        /\ \/ hand'[h].pc = "idle"
           \/ hand'[h].pc = "apply" /\ hand'[h].payload = SyncPayload /\ SyncRead(h)
           \/ /\ hand'[h].pc = "seal" /\ hand[h].pc = "apply"
              /\ hand[h].payload \in {"approve", "pend"} /\ SyncWrite(h)
    BY DEF SyncRead, SyncWrite, ApprovePlan, Thread, Finish, IdleThread, Inv, TypeInv, Types, ThreadRow
  <1>4. \A g \in Handlers : hand'[g] = hand[g] \/ hand'[g].pc # "write"
    BY <1>3
  <1>5. ApprovedTexts' /\ SentRecords'
    BY <1>1, <1>4, ApprovedFrame, SentFrame DEF Inv, Sending
  <1>6. ASSUME PlanClosed PROVE PlanClosed'
    <2>1. SyncPayload = "keep"
      BY <1>6, ClosedIsKept DEF PlanClosed
    <2>2. plan' = plan
      <3>1. hand[h].pc = "apply" => Synced(hand[h].payload) = plan
        BY <1>6, SyncedRow DEF PlanClosed, Inv, TypeInv, Types, ThreadRow
      <3> QED
        BY <1>6, <3>1 DEF SyncRead, SyncWrite, ApprovePlan, PlanClosed
    <2>3. hand'[h].pc # "seal" /\ (hand'[h].pc = "apply" => hand'[h].payload = "keep")
      BY <1>3, <1>6, <2>1 DEF PlanClosed
    <2>4. Present' # {}
      BY <1>1, <1>6 DEF PlanClosed, Present
    <2> QED
      BY <1>1, <1>3, <1>6, <2>2, <2>3, <2>4, ClosedPlanFrame
  <1>7. ASSUME NEW c \in Candidates, CandidateClosed(c) PROVE CandidateClosed(c)'
    <2>1. \A g \in Handlers : c \notin Writing(g)'
      BY <1>4, <1>7 DEF CandidateClosed, Writing
    <2> QED
      BY <1>1, <1>7, <2>1, ClosedFrame DEF CandidateClosed, Sending
  <1> QED
    BY <1>1, <1>2, <1>5, <1>6, <1>7 DEF Inv, Withdrawn

-----------------------------------------------------------------------------
(* Steps of executions.                                                    *)

LEMMA RunUpdate ==
  ASSUME Types, NEW e \in Executors, NEW row \in RunRow, exec' = [exec EXCEPT ![e] = row]
  PROVE  /\ exec' \in [Executors -> RunRow] /\ exec'[e] = row
         /\ \A d \in Executors \ {e} : exec'[d] = exec[d]
  BY DEF Types

\* An execution that has nothing to send holds nothing, and sends one candidate at a time.
RunOK(row) ==
  /\ row.pc \in {"idle", "apply", "list", "resync"} => row.todo = {}
  /\ row.pc \in {"idle", "apply", "list", "resync", "look", "close"} => row.now = {}
  /\ \A c, d \in row.now : c = d

\* It goes on with nothing but what it holds already, as it is.
GoesOn(e, row) ==
  \A c \in row.todo \cup row.now : c \in Sending(e) /\ row.text[c] = exec[e].text[c]

\* What a step of an execution may do to others: mark a candidate it holds, post an
\* approved text, write its record, and end a plan that nobody withdrew.
LEMMA RunStep ==
  ASSUME Inv, NEW e \in Executors, NEW row \in RunRow, exec' = [exec EXCEPT ![e] = row],
         RunOK(row), GoesOn(e, row),
         UNCHANGED <<worker, hand, rules, approved, settled, raced, ops, generations, crashes>>,
         runs' \in 0..MaxRuns, plan' \in PlanRow, record' \in [Candidates -> RecordStatus],
         history' \in [Candidates -> [Texts -> {"none", "performed", "verified"}]],
         posted' \in [Candidates -> [Texts -> Nat]],
         \A c \in Candidates \ Raced("handlers"), t \in Texts : posted'[c][t] > 0 => t \in approved[c],
         cand' \in [Candidates -> CandRow],
         \A c \in Candidates : /\ cand'[c].text = cand[c].text
                               /\ \/ cand'[c] = cand[c]
                                  \/ c \in Sending(e) /\ cand'[c].status \in {"sent", "failed"},
         PlanClosed => /\ plan' = plan /\ cand' = cand
                       /\ row.pc = "idle" \/ (row.pc = "apply" /\ row.payload = "keep")
  PROVE  TypeInv' /\ ApprovedTexts' /\ Withdrawn'
  <1>1. /\ exec' \in [Executors -> RunRow] /\ exec'[e] = row
        /\ \A d \in Executors \ {e} : exec'[d] = exec[d]
    BY RunUpdate DEF Inv, TypeInv
  <1>2. \A d \in Executors : Sending(d) \subseteq Candidates
    BY DEF Inv, TypeInv, Types, RunRow, Sending
  <1>3. \A d \in Executors : /\ Sending(d)' \subseteq Sending(d)
                             /\ \A c \in Sending(d)' : exec'[d].text[c] = exec[d].text[c]
    BY <1>1 DEF GoesOn, Sending
  <1>4. Types'
    BY <1>1 DEF Inv, TypeInv, Types
  <1>5. \A c \in Candidates : cand[c].status # "none" => cand'[c].status # "none"
    OBVIOUS
  <1>6. TypeInv'
    <2>1. RowsOK' /\ WorkerOK'
      BY DEF Inv, TypeInv, RowsOK, Approved, WorkerOK
    <2>2. ASSUME NEW h \in Handlers PROVE HandOK(h)'
      BY <1>5, OperationType DEF Inv, TypeInv, HandOK
    <2>3. ASSUME NEW d \in Executors PROVE ExecOK(d)'
      <3>1. \A c \in Sending(d)' : cand'[c].status # "none" /\ exec'[d].text[c] \in Texts
        BY <1>2, <1>3, <1>5 DEF Inv, TypeInv, ExecOK
      <3> QED
        BY <1>1, <3>1 DEF Inv, TypeInv, ExecOK, RunOK
    <2> QED
      BY <1>4, <2>1, <2>2, <2>3 DEF TypeInv
  <1>7. ApprovedTexts'
    <2> SUFFICES ASSUME NEW c \in Candidates, c \notin Raced("handlers")
                 PROVE  /\ cand'[c].status = "approved" => cand'[c].text \in approved[c]
                        /\ \A h \in Handlers : c \in Writing(h) /\ hand[h].op.kind = "approve"
                                               => cand'[c].text \in approved[c]
                        /\ \A d \in Executors : c \in Sending(d)' => exec'[d].text[c] \in approved[c]
                        /\ \A t \in Texts : posted'[c][t] > 0 => t \in approved[c]
      BY DEF ApprovedTexts, Raced, Writing
    <2> QED
      BY <1>3 DEF Inv, ApprovedTexts
  <1>8. PlanClosed => PlanClosed'
    BY <1>1 DEF PlanClosed, Present
  <1>9. ASSUME NEW c \in Candidates, CandidateClosed(c) PROVE CandidateClosed(c)'
    BY <1>3, <1>9 DEF CandidateClosed, Writing
  <1> QED
    BY <1>6, <1>7, <1>8, <1>9 DEF Inv, Withdrawn

\* The same when it writes no record, posts nothing and marks nothing.
LEMMA QuietStep ==
  ASSUME Inv, NEW e \in Executors, NEW row \in RunRow, exec' = [exec EXCEPT ![e] = row],
         RunOK(row), GoesOn(e, row),
         UNCHANGED <<cand, record, posted, worker, hand, rules, approved, settled, raced,
                     ops, generations, crashes>>,
         history' \in [Candidates -> [Texts -> {"none", "performed", "verified"}]],
         runs' \in 0..MaxRuns, plan' \in PlanRow,
         PlanClosed => /\ plan' = plan
                       /\ row.pc = "idle" \/ (row.pc = "apply" /\ row.payload = "keep"),
         \A c \in Candidates \ Raced("executions") :
           /\ row.pc \in BeforeRecord /\ c \in row.now
              => record[c] = row.existing /\ record[c] # "sent"
           /\ row.pc = "mark" /\ c \in row.now /\ row.outcome = "sent" => record[c] = "sent"
           /\ c \in row.sent => record[c] = "sent"
  PROVE  Inv'
  <1>1. TypeInv' /\ ApprovedTexts' /\ Withdrawn'
    BY RunStep DEF Inv, TypeInv, Types, ApprovedTexts
  <1>2. exec'[e] = row /\ \A d \in Executors \ {e} : exec'[d] = exec[d]
    BY RunUpdate DEF Inv, TypeInv
  <1>3. SentOK(e)'
    BY <1>2 DEF SentOK, Raced
  <1>4. Sending(e)' \subseteq Sending(e)
    BY <1>2 DEF GoesOn, Sending
  <1> QED
    BY <1>1, <1>2, <1>3, <1>4, SentStepFrame DEF Inv

LEMMA IdleRunOK ==
  ASSUME NEW e \in Executors
  PROVE  /\ RunOK(IdleRun) /\ GoesOn(e, IdleRun)
         /\ IdleRun.pc = "idle" /\ IdleRun.sent = {} /\ IdleRun.now = {}
  BY DEF RunOK, GoesOn, IdleRun

\* A step that ends an execution.
LEMMA EndStep ==
  ASSUME Inv, NEW e \in Executors, End(e),
         UNCHANGED <<cand, record, history, posted, worker, hand, rules, approved, settled, raced,
                     ops, runs, generations, crashes>>,
         plan' \in PlanRow, PlanClosed => plan' = plan
  PROVE  Inv'
  <1> DEFINE row == IdleRun
  <1>1. row \in RunRow /\ exec' = [exec EXCEPT ![e] = row] /\ RunOK(row) /\ GoesOn(e, row)
    BY IdleTypes, IdleRunOK DEF End
  <1>2. row.pc = "idle" /\ row.sent = {} /\ row.now = {}
    BY IdleRunOK
  <1>3. history' \in [Candidates -> [Texts -> {"none", "performed", "verified"}]] /\ runs' \in 0..MaxRuns
    BY DEF Inv, TypeInv, Types
  <1> HIDE DEF row
  <1> QED
    BY <1>1, <1>2, <1>3, QuietStep

\* What a synchronisation reads when an execution begins or has listed nothing.
LEMMA ReadsPayload ==
  ASSUME Inv, NEW e \in Executors, exec[e].todo = {}, exec[e].now = {},
         NEW pc \in {"apply", "resync"}, PlanClosed => pc = "apply",
         exec' = [exec EXCEPT ![e].pc = pc, ![e].payload = SyncPayload],
         UNCHANGED <<plan, cand, record, history, posted, worker, hand, rules, approved, settled, raced,
                     ops, generations, crashes>>,
         runs' \in 0..MaxRuns
  PROVE  Inv'
  <1> DEFINE row == [exec[e] EXCEPT !.pc = pc, !.payload = SyncPayload]
  <1>1. exec[e] \in RunRow
    BY DEF Inv, TypeInv, Types
  <1>2. /\ row \in RunRow /\ row.pc = pc /\ row.payload = SyncPayload
        /\ row.todo = {} /\ row.now = {} /\ row.sent = exec[e].sent
    BY <1>1, PayloadType DEF RunRow
  <1>3. exec' = [exec EXCEPT ![e] = row]
    BY <1>1 DEF Inv, TypeInv, Types
  <1> HIDE DEF row
  <1>4. RunOK(row) /\ GoesOn(e, row)
    BY <1>2 DEF RunOK, GoesOn
  <1>5. PlanClosed => SyncPayload = "keep"
    BY ClosedIsKept DEF PlanClosed
  <1>6. plan \in PlanRow /\ history \in [Candidates -> [Texts -> {"none", "performed", "verified"}]]
    BY DEF Inv, TypeInv, Types
  <1>7. \A c \in Candidates \ Raced("executions") : c \in row.sent => record[c] = "sent"
    BY <1>2 DEF Inv, SentRecords, SentOK
  <1> QED
    BY <1>2, <1>3, <1>4, <1>5, <1>6, <1>7, QuietStep DEF BeforeRecord

LEMMA ExecuteStep ==
  ASSUME Inv, NEW e \in Executors, Execute(e)
  PROVE  Inv'
  <1>1. exec[e].todo = {} /\ exec[e].now = {}
    BY DEF Execute, Inv, TypeInv, ExecOK
  <1>2. runs' \in 0..MaxRuns
    BY BoundAssumption DEF Execute, Inv, TypeInv, Types
  <1> QED
    BY <1>1, <1>2, ReadsPayload DEF Execute, outside

\* A closed plan is not approved by the synchronisation and ends the execution.
LEMMA ExecuteSyncStep ==
  ASSUME Inv, NEW e \in Executors, ExecuteSync(e)
  PROVE  Inv'
  <1>1. /\ UNCHANGED <<cand, record, history, posted, worker, hand, rules, approved, settled, raced,
                       ops, runs, generations, crashes>>
        /\ plan' = Synced(exec[e].payload) /\ exec[e].pc \in {"apply", "resync"}
    BY DEF ExecuteSync, outside, rest, bounds
  <1>2. exec[e] \in RunRow /\ plan \in PlanRow
    BY DEF Inv, TypeInv, Types
  <1>3. exec[e].payload \in Payload
    BY <1>2 DEF RunRow
  <1>4. plan' \in PlanRow /\ (PlanClosed => plan' = plan)
    BY <1>1, <1>2, <1>3, SyncedRow DEF PlanClosed
  <1>5. CASE End(e)
    BY <1>1, <1>4, <1>5, EndStep
  <1>6. CASE Run(e, "list") /\ plan'.status = "approved"
    <2> DEFINE row == [exec[e] EXCEPT !.pc = "list"]
    <2>1. /\ row \in RunRow /\ row.pc = "list" /\ row.todo = {} /\ row.now = {}
          /\ row.sent = exec[e].sent
      BY <1>1, <1>2 DEF RunRow, Inv, TypeInv, ExecOK
    <2>2. exec' = [exec EXCEPT ![e] = row]
      BY <1>6 DEF Run, Inv, TypeInv, Types
    <2> HIDE DEF row
    <2>3. RunOK(row) /\ GoesOn(e, row)
      BY <2>1 DEF RunOK, GoesOn
    <2>4. ~PlanClosed
      BY <1>4, <1>6 DEF PlanClosed
    <2>5. history' \in [Candidates -> [Texts -> {"none", "performed", "verified"}]] /\ runs' \in 0..MaxRuns
      BY <1>1 DEF Inv, TypeInv, Types
    <2>6. \A c \in Candidates \ Raced("executions") : c \in row.sent => record[c] = "sent"
      BY <2>1 DEF Inv, SentRecords, SentOK
    <2> QED
      BY <1>1, <1>4, <2>1, <2>2, <2>3, <2>4, <2>5, <2>6, QuietStep DEF BeforeRecord
  <1> QED
    BY <1>5, <1>6 DEF ExecuteSync

\* A step of an execution under way that changes nothing but what it holds.
LEMMA InnerStep ==
  ASSUME Inv, NEW e \in Executors, NEW row \in RunRow, exec' = [exec EXCEPT ![e] = row],
         exec[e].pc \notin {"idle", "apply"}, RunOK(row), GoesOn(e, row),
         UNCHANGED <<plan, cand, record, posted, worker, hand, rules, approved, settled, raced,
                     ops, runs, generations, crashes>>,
         history' \in [Candidates -> [Texts -> {"none", "performed", "verified"}]],
         \A c \in Candidates \ Raced("executions") :
           /\ row.pc \in BeforeRecord /\ c \in row.now
              => record[c] = row.existing /\ record[c] # "sent"
           /\ row.pc # "mark"
           /\ c \in row.sent => record[c] = "sent"
  PROVE  Inv'
  <1>1. plan \in PlanRow /\ runs \in 0..MaxRuns
    BY DEF Inv, TypeInv, Types
  <1>2. ~PlanClosed
    BY DEF PlanClosed
  <1> QED
    BY <1>1, <1>2, QuietStep

LEMMA LookUpStep ==
  ASSUME Inv, NEW e \in Executors, LookUp(e)
  PROVE  Inv'
  <1>1. /\ UNCHANGED <<plan, cand, record, history, posted, worker, hand, rules, approved, settled,
                       raced, ops, runs, generations, crashes>>
        /\ exec[e].pc = "look" /\ exec[e] \in RunRow /\ exec[e].now = {}
        /\ history' \in [Candidates -> [Texts -> {"none", "performed", "verified"}]]
    BY DEF LookUp, outside, rest, bounds, Inv, TypeInv, Types, ExecOK
  <1>2. \A c \in Candidates \ Raced("executions") : c \in exec[e].sent => record[c] = "sent"
    BY DEF Inv, SentRecords, SentOK
  <1>3. CASE exec[e].todo = {} /\ Run(e, "close")
    <2> DEFINE row == [exec[e] EXCEPT !.pc = "close"]
    <2>1. /\ row \in RunRow /\ row.pc = "close" /\ row.todo = {} /\ row.now = {}
          /\ row.sent = exec[e].sent
      BY <1>1, <1>3 DEF RunRow
    <2>2. exec' = [exec EXCEPT ![e] = row]
      BY <1>3 DEF Run, Inv, TypeInv, Types
    <2> HIDE DEF row
    <2>3. RunOK(row) /\ GoesOn(e, row)
      BY <2>1 DEF RunOK, GoesOn
    <2> QED
      BY <1>1, <1>2, <2>1, <2>2, <2>3, InnerStep DEF BeforeRecord
  <1>4. ASSUME NEW c \in exec[e].todo, AlreadySent(c),
               exec' = [exec EXCEPT ![e].todo = @ \ {c}, ![e].sent = @ \cup {c}]
        PROVE  Inv'
    <2> DEFINE row == [exec[e] EXCEPT !.todo = @ \ {c}, !.sent = @ \cup {c}]
    <2>1. /\ row \in RunRow /\ row.pc = "look" /\ row.todo = exec[e].todo \ {c} /\ row.now = {}
          /\ row.sent = exec[e].sent \cup {c} /\ row.text = exec[e].text
      BY <1>1 DEF RunRow
    <2>2. exec' = [exec EXCEPT ![e] = row]
      BY <1>4 DEF Inv, TypeInv, Types
    <2> HIDE DEF row
    <2>3. RunOK(row) /\ GoesOn(e, row)
      BY <2>1 DEF RunOK, GoesOn, Sending
    <2> QED
      BY <1>1, <1>2, <1>4, <2>1, <2>2, <2>3, InnerStep DEF BeforeRecord, AlreadySent
  <1>5. ASSUME NEW c \in exec[e].todo, ~AlreadySent(c),
               exec' = [exec EXCEPT ![e].pc = "gate", ![e].todo = @ \ {c}, ![e].now = {c},
                                    ![e].existing = record[c]]
        PROVE  Inv'
    <2> DEFINE row == [exec[e] EXCEPT !.pc = "gate", !.todo = @ \ {c}, !.now = {c},
                                      !.existing = record[c]]
    <2>1. c \in Candidates /\ record[c] \in RecordStatus
      BY <1>1 DEF RunRow, Inv, TypeInv, Types
    <2>2. /\ row \in RunRow /\ row.pc = "gate" /\ row.todo = exec[e].todo \ {c} /\ row.now = {c}
          /\ row.sent = exec[e].sent /\ row.text = exec[e].text /\ row.existing = record[c]
      BY <1>1, <2>1 DEF RunRow
    <2>3. exec' = [exec EXCEPT ![e] = row]
      BY <1>5 DEF Inv, TypeInv, Types
    <2> HIDE DEF row
    <2>4. RunOK(row) /\ GoesOn(e, row)
      BY <2>2 DEF RunOK, GoesOn, Sending
    <2> QED
      BY <1>1, <1>2, <1>5, <2>2, <2>3, <2>4, InnerStep DEF BeforeRecord, AlreadySent
  <1> QED
    BY <1>3, <1>4, <1>5 DEF LookUp

\* Between looking after the record and writing it an execution keeps what it holds.
Keeps(row, old) ==
  /\ row.pc \in BeforeRecord
  /\ row.todo = old.todo /\ row.now = old.now /\ row.sent = old.sent
  /\ row.text = old.text /\ row.existing = old.existing

LEMMA BeforeRecordRows ==
  ASSUME Types, NEW e \in Executors,
         \/ Run(e, "click") \/ Run(e, "landed")
         \/ Outcome(e, "sent") \/ Outcome(e, "not_sent")
  PROVE  \E row \in RunRow : exec' = [exec EXCEPT ![e] = row] /\ Keeps(row, exec[e])
  <1>1. exec[e] \in RunRow
    BY DEF Types
  <1>2. ASSUME NEW pc \in {"click", "landed"}, Run(e, pc)
        PROVE  \E row \in RunRow : exec' = [exec EXCEPT ![e] = row] /\ Keeps(row, exec[e])
    <2> DEFINE row == [exec[e] EXCEPT !.pc = pc]
    <2>1. row \in RunRow /\ Keeps(row, exec[e])
      BY <1>1 DEF RunRow, Keeps, BeforeRecord
    <2>2. exec' = [exec EXCEPT ![e] = row]
      BY <1>2 DEF Run, Types
    <2> HIDE DEF row
    <2> QED  BY <2>1, <2>2
  <1>3. ASSUME NEW status \in {"sent", "not_sent"}, Outcome(e, status)
        PROVE  \E row \in RunRow : exec' = [exec EXCEPT ![e] = row] /\ Keeps(row, exec[e])
    <2> DEFINE row == [exec[e] EXCEPT !.pc = "persist", !.outcome = status]
    <2>1. row \in RunRow /\ Keeps(row, exec[e])
      BY <1>1 DEF RunRow, Keeps, BeforeRecord, RecordStatus
    <2>2. exec' = [exec EXCEPT ![e] = row]
      BY <1>3 DEF Outcome, Types
    <2> HIDE DEF row
    <2> QED  BY <2>1, <2>2
  <1> QED
    BY <1>2, <1>3

LEMMA KeepsOn ==
  ASSUME Inv, NEW e \in Executors, exec[e].pc \in BeforeRecord, NEW row \in RunRow,
         Keeps(row, exec[e])
  PROVE  /\ RunOK(row) /\ GoesOn(e, row)
         /\ \A c \in Candidates \ Raced("executions") :
              /\ c \in row.now => record[c] = row.existing /\ record[c] # "sent"
              /\ c \in row.sent => record[c] = "sent"
  <1>1. \A c, d \in exec[e].now : c = d
    BY DEF Inv, TypeInv, ExecOK
  <1>2. RunOK(row) /\ GoesOn(e, row)
    BY <1>1 DEF RunOK, GoesOn, Keeps, Sending, BeforeRecord
  <1> QED
    BY <1>2 DEF Keeps, Inv, SentRecords, SentOK

LEMMA GateStep ==
  ASSUME Inv, NEW e \in Executors, Gate(e) \/ Verdict(e)
  PROVE  Inv'
  <1>1. /\ UNCHANGED <<plan, cand, record, posted, worker, hand, rules, approved, settled,
                       raced, ops, runs, generations, crashes>>
        /\ exec[e].pc \in {"gate", "landed"} /\ exec[e].pc \in BeforeRecord
    BY DEF Gate, Verdict, outside, rest, bounds, BeforeRecord
  <1>2. history' \in [Candidates -> [Texts -> {"none", "performed", "verified"}]]
    <2>1. history \in [Candidates -> [Texts -> {"none", "performed", "verified"}]]
      BY DEF Inv, TypeInv, Types
    <2> QED
      BY <2>1 DEF Gate, Verdict, outside
  <1>3. PICK row \in RunRow : exec' = [exec EXCEPT ![e] = row] /\ Keeps(row, exec[e])
    <2>1. Run(e, "click") \/ Outcome(e, "sent") \/ Outcome(e, "not_sent")
      BY DEF Gate, Verdict
    <2> QED
      BY <2>1, BeforeRecordRows DEF Inv, TypeInv
  <1>4. /\ RunOK(row) /\ GoesOn(e, row)
        /\ \A c \in Candidates \ Raced("executions") :
             /\ c \in row.now => record[c] = row.existing /\ record[c] # "sent"
             /\ c \in row.sent => record[c] = "sent"
    BY <1>1, <1>3, KeepsOn
  <1>5. row.pc # "mark" /\ exec[e].pc \notin {"idle", "apply"}
    BY <1>1, <1>3 DEF Keeps, BeforeRecord
  <1> QED
    BY <1>1, <1>2, <1>3, <1>4, <1>5, InnerStep

\* What is posted is a text the execution holds.
LEMMA ClickStep ==
  ASSUME Inv, NEW e \in Executors, ClickSend(e)
  PROVE  Inv'
  <1>1. /\ UNCHANGED <<plan, cand, record, history, worker, hand, rules, approved, settled,
                       raced, ops, runs, generations, crashes>>
        /\ exec[e].pc = "click" /\ exec[e].pc \in BeforeRecord
    BY DEF ClickSend, outside, rest, bounds, BeforeRecord
  <1>2. PICK row \in RunRow : exec' = [exec EXCEPT ![e] = row] /\ Keeps(row, exec[e])
    BY BeforeRecordRows DEF ClickSend, Inv, TypeInv
  <1>3. /\ RunOK(row) /\ GoesOn(e, row)
        /\ \A c \in Candidates \ Raced("executions") :
             /\ c \in row.now => record[c] = row.existing /\ record[c] # "sent"
             /\ c \in row.sent => record[c] = "sent"
    BY <1>1, <1>2, KeepsOn
  <1>4. PICK c \in exec[e].now :
          posted' = posted \/ posted' = [posted EXCEPT ![c][exec[e].text[c]] = @ + 1]
    BY DEF ClickSend
  <1>5. c \in Candidates /\ c \in Sending(e) /\ exec[e].text[c] \in Texts
    BY DEF Inv, TypeInv, Types, RunRow, ExecOK, Sending
  <1>6. /\ posted' \in [Candidates -> [Texts -> Nat]]
        /\ \A d \in Candidates, t \in Texts :
             posted'[d][t] = posted[d][t] \/ (d = c /\ t = exec[e].text[c])
    <2> DEFINE counts == [posted[c] EXCEPT ![exec[e].text[c]] = @ + 1]
    <2>1. posted \in [Candidates -> [Texts -> Nat]] /\ posted[c] \in [Texts -> Nat]
      BY <1>5 DEF Inv, TypeInv, Types
    <2>2. /\ counts \in [Texts -> Nat]
          /\ \A t \in Texts : counts[t] = posted[c][t] \/ t = exec[e].text[c]
      BY <1>5, <2>1
    <2>3. posted' = posted \/ posted' = [posted EXCEPT ![c] = counts]
      BY <1>4, <1>5, <2>1
    <2> HIDE DEF counts
    <2> QED
      BY <1>5, <2>1, <2>2, <2>3
  <1>7. \A d \in Candidates \ Raced("handlers"), t \in Texts : posted'[d][t] > 0 => t \in approved[d]
    BY <1>5, <1>6 DEF Inv, ApprovedTexts
  <1>8. ~PlanClosed
    BY <1>1 DEF PlanClosed
  <1>9. /\ plan' \in PlanRow /\ record' \in [Candidates -> RecordStatus]
        /\ history' \in [Candidates -> [Texts -> {"none", "performed", "verified"}]]
        /\ cand' \in [Candidates -> CandRow] /\ runs' \in 0..MaxRuns
    BY <1>1 DEF Inv, TypeInv, Types
  <1>10. TypeInv' /\ ApprovedTexts' /\ Withdrawn'
    BY <1>1, <1>2, <1>3, <1>6, <1>7, <1>8, <1>9, RunStep
  <1>11. exec'[e] = row /\ \A d \in Executors \ {e} : exec'[d] = exec[d]
    BY <1>2, RunUpdate DEF Inv, TypeInv
  <1>12. SentOK(e)'
    BY <1>1, <1>2, <1>3, <1>11 DEF SentOK, Raced, Keeps, BeforeRecord
  <1>13. Sending(e)' \subseteq Sending(e)
    BY <1>3, <1>11 DEF GoesOn, Sending
  <1> QED
    BY <1>1, <1>10, <1>11, <1>12, <1>13, SentStepFrame DEF Inv

\* A record is written where the execution found none, or the one it found.
LEMMA PersistStep ==
  ASSUME Inv, NEW e \in Executors, PersistRecord(e)
  PROVE  Inv'
  <1>1. /\ UNCHANGED <<plan, cand, history, posted, worker, hand, rules, approved, settled,
                       raced, ops, runs, generations, crashes>>
        /\ exec[e].pc = "persist" /\ exec[e].pc \in BeforeRecord /\ exec[e] \in RunRow
    BY DEF PersistRecord, outside, rest, bounds, BeforeRecord, Inv, TypeInv, Types
  <1>2. PICK c \in exec[e].now :
          record' = IF exec[e].existing = "none" /\ record[c] # "none" THEN record
                    ELSE [record EXCEPT ![c] = exec[e].outcome]
    BY DEF PersistRecord
  <1>3. c \in Candidates /\ c \in Sending(e) /\ \A d \in exec[e].now : d = c
    BY <1>1, <1>2 DEF RunRow, Inv, TypeInv, ExecOK, Sending
  <1> DEFINE row == [exec[e] EXCEPT !.pc = "mark"]
  <1>4. /\ row \in RunRow /\ row.pc = "mark" /\ row.todo = exec[e].todo /\ row.now = exec[e].now
        /\ row.sent = exec[e].sent /\ row.text = exec[e].text /\ row.outcome = exec[e].outcome
    BY <1>1 DEF RunRow
  <1>5. exec' = [exec EXCEPT ![e] = row]
    BY DEF PersistRecord, Run, Inv, TypeInv, Types
  <1> HIDE DEF row
  <1>6. RunOK(row) /\ GoesOn(e, row)
    BY <1>3, <1>4 DEF RunOK, GoesOn, Sending
  <1>7. /\ record' \in [Candidates -> RecordStatus]
        /\ \A d \in Candidates : d # c => record'[d] = record[d]
    BY <1>1, <1>2, <1>3 DEF RunRow, Inv, TypeInv, Types
  <1>8. c \notin Raced("executions") => /\ exec[e].outcome = "sent" => record'[c] = "sent"
                                        /\ record[c] # "sent"
    BY <1>1, <1>2, <1>3 DEF Inv, TypeInv, Types, SentRecords, SentOK
  <1>9. ~PlanClosed
    BY <1>1 DEF PlanClosed
  <1>10. /\ plan' \in PlanRow /\ posted' \in [Candidates -> [Texts -> Nat]]
         /\ history' \in [Candidates -> [Texts -> {"none", "performed", "verified"}]]
         /\ cand' \in [Candidates -> CandRow] /\ runs' \in 0..MaxRuns
    BY <1>1 DEF Inv, TypeInv, Types
  <1>11. \A d \in Candidates \ Raced("handlers"), t \in Texts : posted'[d][t] > 0 => t \in approved[d]
    BY <1>1 DEF Inv, ApprovedTexts
  <1>12. TypeInv' /\ ApprovedTexts' /\ Withdrawn'
    BY <1>1, <1>4, <1>5, <1>6, <1>7, <1>9, <1>10, <1>11, RunStep
  <1>13. exec'[e] = row /\ \A d \in Executors \ {e} : exec'[d] = exec[d]
    BY <1>4, <1>5, RunUpdate DEF Inv, TypeInv
  <1>14. SendingApart'
    BY <1>1, <1>4, <1>13 DEF Inv, SentRecords, SendingApart, Raced, Sending
  <1>15. ASSUME NEW d \in Executors PROVE SentOK(d)'
    <2> SUFFICES ASSUME NEW a \in Candidates, a \notin Raced("executions")
                 PROVE  /\ exec'[d].pc \in BeforeRecord /\ a \in exec'[d].now
                             => record'[a] = exec'[d].existing /\ record'[a] # "sent"
                        /\ exec'[d].pc = "mark" /\ a \in exec'[d].now /\ exec'[d].outcome = "sent"
                             => record'[a] = "sent"
                        /\ a \in exec'[d].sent => record'[a] = "sent"
      BY <1>1 DEF SentOK, Raced
    <2>1. /\ exec[d].pc \in BeforeRecord /\ a \in exec[d].now
               => record[a] = exec[d].existing /\ record[a] # "sent"
          /\ exec[d].pc = "mark" /\ a \in exec[d].now /\ exec[d].outcome = "sent" => record[a] = "sent"
          /\ a \in exec[d].sent => record[a] = "sent"
      BY DEF Inv, SentRecords, SentOK
    <2>2. CASE d = e
      BY <1>3, <1>4, <1>7, <1>8, <1>13, <2>1, <2>2 DEF BeforeRecord
    <2>3. CASE d # e /\ a # c
      BY <1>7, <1>13, <2>1, <2>3
    <2>4. CASE d # e /\ a = c
      <3>1. c \notin exec[d].now
        BY <1>3, <2>4 DEF Inv, SentRecords, SendingApart, Sending
      <3> QED
        BY <1>8, <1>13, <2>1, <2>4, <3>1
    <2> QED  BY <2>2, <2>3, <2>4
  <1> QED
    BY <1>12, <1>14, <1>15 DEF Inv, SentRecords

\* The candidate gets the outcome that its record has by then.
LEMMA MarkStep ==
  ASSUME Inv, NEW e \in Executors, MarkCandidate(e)
  PROVE  Inv'
  <1>1. /\ UNCHANGED <<plan, record, history, posted, worker, hand, rules, approved, settled,
                       raced, ops, runs, generations, crashes>>
        /\ exec[e].pc = "mark" /\ exec[e] \in RunRow
    BY DEF MarkCandidate, outside, rest, bounds, Inv, TypeInv, Types
  <1>2. PICK c \in exec[e].now :
          /\ cand' = [cand EXCEPT ![c].status = IF exec[e].outcome = "sent" THEN "sent" ELSE "failed"]
          /\ exec' = [exec EXCEPT ![e].pc = "look", ![e].now = {}, ![e].existing = "none",
                                  ![e].outcome = "none",
                                  ![e].sent = IF exec[e].outcome = "sent" THEN @ \cup {c} ELSE @]
    BY DEF MarkCandidate
  <1>3. c \in Candidates /\ c \in Sending(e)
    BY <1>1 DEF RunRow, Sending
  <1> DEFINE row == [exec[e] EXCEPT !.pc = "look", !.now = {}, !.existing = "none",
                                    !.outcome = "none",
                                    !.sent = IF exec[e].outcome = "sent" THEN @ \cup {c} ELSE @]
             mark == [cand[c] EXCEPT !.status = IF exec[e].outcome = "sent" THEN "sent" ELSE "failed"]
  <1>4. /\ row \in RunRow /\ row.pc = "look" /\ row.todo = exec[e].todo /\ row.now = {}
        /\ row.sent = (IF exec[e].outcome = "sent" THEN exec[e].sent \cup {c} ELSE exec[e].sent)
        /\ row.text = exec[e].text
    BY <1>1, <1>3 DEF RunRow, RecordStatus
  <1>5. mark \in CandRow /\ mark.status \in {"sent", "failed"} /\ mark.text = cand[c].text
    <2>1. cand[c] \in CandRow
      BY <1>3 DEF Inv, TypeInv, Types
    <2> QED
      BY <2>1 DEF CandRow, CandStatus
  <1>6. exec' = [exec EXCEPT ![e] = row] /\ cand' = [cand EXCEPT ![c] = mark]
    BY <1>2, <1>3 DEF Inv, TypeInv, Types
  <1> HIDE DEF row, mark
  <1>7. RunOK(row) /\ GoesOn(e, row)
    BY <1>4 DEF RunOK, GoesOn, Sending
  <1>8. /\ cand' \in [Candidates -> CandRow]
        /\ \A d \in Candidates : /\ cand'[d].text = cand[d].text
                                 /\ \/ cand'[d] = cand[d]
                                    \/ d \in Sending(e) /\ cand'[d].status \in {"sent", "failed"}
    BY <1>3, <1>5, <1>6 DEF Inv, TypeInv, Types
  <1>9. ~PlanClosed
    BY <1>1 DEF PlanClosed
  <1>10. /\ plan' \in PlanRow /\ posted' \in [Candidates -> [Texts -> Nat]]
         /\ history' \in [Candidates -> [Texts -> {"none", "performed", "verified"}]]
         /\ record' \in [Candidates -> RecordStatus] /\ runs' \in 0..MaxRuns
         /\ \A d \in Candidates \ Raced("handlers"), t \in Texts : posted'[d][t] > 0 => t \in approved[d]
    BY <1>1 DEF Inv, TypeInv, Types, ApprovedTexts
  <1>11. TypeInv' /\ ApprovedTexts' /\ Withdrawn'
    BY <1>1, <1>4, <1>6, <1>7, <1>8, <1>9, <1>10, RunStep
  <1>12. exec'[e] = row /\ \A d \in Executors \ {e} : exec'[d] = exec[d]
    BY <1>4, <1>6, RunUpdate DEF Inv, TypeInv
  <1>13. SentOK(e)'
    BY <1>1, <1>3, <1>4, <1>12 DEF SentOK, Raced, BeforeRecord, Inv, SentRecords
  <1>14. Sending(e)' \subseteq Sending(e)
    BY <1>7, <1>12 DEF GoesOn, Sending
  <1> QED
    BY <1>1, <1>11, <1>12, <1>13, <1>14, SentStepFrame DEF Inv

LEMMA CloseStep ==
  ASSUME Inv, NEW e \in Executors, ClosePlan(e)
  PROVE  Inv'
  <1>1. /\ UNCHANGED <<cand, record, history, posted, worker, hand, rules, approved, settled, raced,
                       ops, runs, generations, crashes>>
        /\ exec[e].pc = "close" /\ End(e)
    BY DEF ClosePlan, outside, rest, bounds
  <1>2. plan' \in PlanRow
    BY DEF ClosePlan, Inv, TypeInv, Types, PlanRow, PlanStatus
  <1>3. ~PlanClosed
    BY <1>1 DEF PlanClosed
  <1> QED
    BY <1>1, <1>2, <1>3, EndStep

\* The texts listed are those of approved rows; whoever sends one of them already is
\* from now on known to overlap.
LEMMA ListStep ==
  ASSUME Inv, NEW e \in Executors, ListApproved(e)
  PROVE  Inv'
  <1>1. /\ UNCHANGED <<cand, record, history, posted, worker, hand, rules, approved, settled,
                       ops, runs, generations, crashes>>
        /\ exec[e].pc = "list" /\ exec[e] \in RunRow /\ exec[e].todo = {} /\ exec[e].now = {}
        /\ plan \in PlanRow /\ runs \in 0..MaxRuns /\ Approved \subseteq Candidates
    BY DEF ListApproved, outside, rest, bounds, Inv, TypeInv, Types, ExecOK, Approved
  <1>2. ~PlanClosed
    BY <1>1 DEF PlanClosed
  <1>3. CASE /\ exec' = [exec EXCEPT ![e].pc = "resync", ![e].payload = SyncPayload]
             /\ UNCHANGED <<plan, raced>>
    BY <1>1, <1>2, <1>3, ReadsPayload
  <1>4. CASE Guarded(e)
    <2>1. plan' \in PlanRow
      BY <1>1, <1>4 DEF Guarded, PlanRow, PlanStatus
    <2> QED
      BY <1>1, <1>2, <1>4, <2>1, EndStep DEF Guarded
  <1>5. CASE /\ exec' = [exec EXCEPT ![e].pc = "look", ![e].listed = Approved, ![e].todo = Approved,
                                     ![e].text = [c \in Candidates |-> IF c \in Approved
                                                                       THEN cand[c].text ELSE NoText]]
             /\ raced' = raced \cup {<<c, "executions">> :
                                    c \in Approved \cap UNION {Sending(d) : d \in Executors \ {e}}}
             /\ UNCHANGED plan
    <2> DEFINE listed == [c \in Candidates |-> IF c \in Approved THEN cand[c].text ELSE NoText]
               row == [exec[e] EXCEPT !.pc = "look", !.listed = Approved, !.todo = Approved,
                                      !.text = listed]
    <2>1. listed \in [Candidates -> Texts \cup {NoText}] /\ \A c \in Approved : listed[c] = cand[c].text
      BY <1>1 DEF Inv, TypeInv, Types, CandRow
    <2> HIDE DEF listed
    <2>2. /\ row \in RunRow /\ row.pc = "look" /\ row.todo = Approved /\ row.now = {}
          /\ row.sent = exec[e].sent /\ row.text = listed
      BY <1>1, <2>1 DEF RunRow
    <2>3. exec' = [exec EXCEPT ![e] = row]
      BY <1>5 DEF listed, Inv, TypeInv, Types
    <2> HIDE DEF row
    <2>4. /\ exec' \in [Executors -> RunRow] /\ exec'[e] = row
          /\ \A d \in Executors \ {e} : exec'[d] = exec[d]
      BY <2>2, <2>3, RunUpdate DEF Inv, TypeInv
    <2>5. Sending(e)' = Approved /\ \A d \in Executors \ {e} : Sending(d)' = Sending(d)
      BY <2>2, <2>4 DEF Sending
    <2>6. raced' \subseteq Candidates \X {"handlers", "executions"} /\ raced \subseteq raced'
      BY <1>1, <1>5 DEF Inv, TypeInv, Types
    <2>7. TypeInv'
      <3>1. Types'
        BY <1>1, <1>5, <2>4, <2>6 DEF Inv, TypeInv, Types
      <3>2. \A c \in Approved : cand[c].status # "none" /\ row.text[c] \in Texts
        BY <2>1, <2>2 DEF Inv, TypeInv, RowsOK, Approved
      <3>3. ASSUME NEW d \in Executors PROVE ExecOK(d)'
        BY <1>1, <2>2, <2>4, <2>5, <3>2 DEF Inv, TypeInv, ExecOK
      <3> QED
        BY <1>1, <3>1, <3>3 DEF Inv, TypeInv, RowsOK, Approved, WorkerOK, HandOK
    <2>8. ApprovedTexts'
      <3> SUFFICES ASSUME NEW c \in Candidates, c \notin Raced("handlers")'
                   PROVE  /\ cand[c].status = "approved" => cand[c].text \in approved[c]
                          /\ \A h \in Handlers : c \in Writing(h) /\ hand[h].op.kind = "approve"
                                                 => cand[c].text \in approved[c]
                          /\ \A d \in Executors : c \in Sending(d)' => exec'[d].text[c] \in approved[c]
                          /\ \A t \in Texts : posted[c][t] > 0 => t \in approved[c]
        BY <1>1 DEF ApprovedTexts, Writing
      <3>1. c \notin Raced("handlers")
        BY <2>6 DEF Raced
      <3>2. c \in Approved => row.text[c] \in approved[c]
        BY <2>1, <2>2, <3>1 DEF Inv, ApprovedTexts, Approved
      <3> QED
        BY <2>4, <2>5, <3>1, <3>2 DEF Inv, ApprovedTexts
    <2>9. SentRecords'
      <3>1. \A c \in Candidates : c \notin Raced("executions")' => c \notin Raced("executions")
        BY <2>6 DEF Raced
      <3>2. ASSUME NEW c \in Approved, c \notin Raced("executions")', NEW d \in Executors \ {e}
            PROVE  c \notin Sending(d)
        BY <1>5, <3>2 DEF Raced, Approved
      <3>3. SendingApart'
        BY <2>5, <3>1, <3>2 DEF Inv, SentRecords, SendingApart
      <3>4. ASSUME NEW d \in Executors PROVE SentOK(d)'
        BY <1>1, <2>2, <2>4, <3>1 DEF Inv, SentRecords, SentOK, BeforeRecord
      <3> QED
        BY <3>3, <3>4 DEF SentRecords
    <2>10. ASSUME NEW c \in Candidates, CandidateClosed(c) PROVE CandidateClosed(c)'
      <3>1. c \notin Approved
        BY <2>10 DEF CandidateClosed, Approved
      <3> QED
        BY <1>1, <2>5, <2>10, <3>1 DEF CandidateClosed, Writing
    <2> QED
      BY <1>1, <1>2, <2>7, <2>8, <2>9, <2>10 DEF Inv, Withdrawn
  <1> QED
    BY <1>3, <1>4, <1>5 DEF ListApproved

\* A crash takes from handlers and executions what they hold, and nothing else.
LEMMA CrashStep ==
  ASSUME Inv, ApiCrash
  PROVE  Inv'
  <1>1. /\ UNCHANGED <<plan, cand, record, history, posted, worker, rules, approved, raced, settled,
                       ops, runs, generations>>
        /\ crashes' \in 0..MaxCrashes
        /\ hand' = [h \in Handlers |-> IdleThread] /\ exec' = [e \in Executors |-> IdleRun]
    BY BoundAssumption DEF ApiCrash, outside, Inv, TypeInv, Types
  <1>2. /\ \A h \in Handlers : hand'[h].pc = "idle"
        /\ \A e \in Executors : /\ exec'[e].pc = "idle" /\ exec'[e].todo = {} /\ exec'[e].now = {}
                                /\ exec'[e].sent = {}
    BY <1>1 DEF IdleThread, IdleRun
  <1>3. Types'
    BY <1>1, IdleTypes DEF Inv, TypeInv, Types
  <1>4. TypeInv'
    BY <1>1, <1>2, <1>3 DEF Inv, TypeInv, RowsOK, Approved, WorkerOK, HandOK, ExecOK, Sending
  <1>5. ApprovedTexts'
    BY <1>1, <1>2 DEF Inv, ApprovedTexts, Raced, Writing, Sending
  <1>6. SentRecords'
    BY <1>2 DEF SentRecords, SendingApart, SentOK, Sending, BeforeRecord
  <1>7. Withdrawn'
    BY <1>1, <1>2 DEF Inv, Withdrawn, PlanClosed, CandidateClosed, Present, Writing, Sending
  <1> QED
    BY <1>4, <1>5, <1>6, <1>7 DEF Inv

-----------------------------------------------------------------------------
(* Every step, and the theorems.                                           *)

LEMMA InvStep == Inv /\ [Next]_vars => Inv'
  <1> SUFFICES ASSUME Inv, [Next]_vars PROVE Inv'
    OBVIOUS
  <1>1. CASE Worker
    BY <1>1, GenerateStep, ProposeStep, GenerationEndStep DEF Worker
  <1>2. ASSUME NEW h \in Handlers, Handle(h) PROVE Inv'
    BY <1>2, WriteStep, CancelPlanStep, HandlerSyncStep DEF Handle
  <1>3. ASSUME NEW h \in Handlers, NEW op \in Operations, Request(h, op) PROVE Inv'
    BY <1>3, RequestStep
  <1>4. ASSUME NEW e \in Executors, Execute(e) \/ ExecStep(e) PROVE Inv'
    BY <1>4, ExecuteStep, ExecuteSyncStep, ListStep, LookUpStep, GateStep, ClickStep, PersistStep,
       MarkStep, CloseStep DEF ExecStep
  <1>5. ASSUME NEW k \in Edited, EditRule(k) PROVE Inv'
    BY <1>5, EditRuleStep
  <1>6. CASE ApiCrash
    BY <1>6, CrashStep
  <1>7. CASE UNCHANGED vars
    <2>1. TypeInv'
      BY <1>7 DEF vars, Inv, TypeInv, Types, RowsOK, Approved, WorkerOK, HandOK, ExecOK, Sending
    <2>2. ApprovedTexts'
      BY <1>7 DEF vars, Inv, ApprovedTexts, Raced, Writing, Sending
    <2>3. SentRecords'
      BY <1>7, SentFrame DEF vars, Inv
    <2>4. Withdrawn'
      BY <1>7 DEF vars, Inv, Withdrawn, PlanClosed, CandidateClosed, Present, Writing, Sending
    <2> QED
      BY <2>1, <2>2, <2>3, <2>4 DEF Inv
  <1> QED
    BY <1>1, <1>2, <1>3, <1>4, <1>5, <1>6, <1>7 DEF Next

LEMMA InvHolds == Spec => []Inv
  BY InvInit, InvStep, PTL DEF Spec

\* Every text under a comment was approved for it, or proposed by an automatic plan, as
\* long as no two handlers overlapped on the candidate; and the rows have their types.
THEOREM OnlyApprovedIsPosted == Spec => []ApprovedTextOnly
  <1>1. Inv => ApprovedTextOnly
    <2> SUFFICES ASSUME Inv PROVE ApprovedTextOnly
      OBVIOUS
    <2>1. TypeOK
      BY DEF Inv, TypeInv, Types, TypeOK, PlanRow, CandRow, ThreadRow, RunRow, WorkerRow
    <2> QED
      BY <2>1 DEF Inv, ApprovedTexts, ApprovedTextOnly
  <1> QED
    BY <1>1, InvHolds, PTL

\* Only executions write records and post, each for the candidate it has in hand.
LEMMA WhoSends ==
  ASSUME Inv, [Next]_vars,
         NEW c \in Candidates, record'[c] # record[c] \/ posted'[c] # posted[c]
  PROVE  \E e \in Executors : c \in exec[e].now /\ exec[e].pc \in {"click", "persist"}
  <1>1. CASE record' = record /\ posted' = posted
    BY <1>1
  <1>2. ASSUME NEW e \in Executors, ClickSend(e)
        PROVE  c \in exec[e].now /\ exec[e].pc \in {"click", "persist"}
    <2>1. record' = record /\ exec[e].pc = "click"
      BY <1>2 DEF ClickSend
    <2>2. PICK d \in exec[e].now :
            posted' = posted \/ posted' = [posted EXCEPT ![d][exec[e].text[d]] = @ + 1]
      BY <1>2 DEF ClickSend
    <2>3. c # d => posted'[c] = posted[c]
      BY <2>2 DEF Inv, TypeInv, Types
    <2> QED
      BY <2>1, <2>2, <2>3
  <1>3. ASSUME NEW e \in Executors, PersistRecord(e)
        PROVE  c \in exec[e].now /\ exec[e].pc \in {"click", "persist"}
    <2>1. posted' = posted /\ exec[e].pc = "persist"
      BY <1>3 DEF PersistRecord, outside
    <2>2. PICK d \in exec[e].now :
            record' = IF exec[e].existing = "none" /\ record[d] # "none" THEN record
                      ELSE [record EXCEPT ![d] = exec[e].outcome]
      BY <1>3 DEF PersistRecord
    <2>3. c # d => record'[c] = record[c]
      BY <2>2 DEF Inv, TypeInv, Types
    <2> QED
      BY <2>1, <2>2, <2>3
  <1> QED
    BY <1>1, <1>2, <1>3 DEF Next, Worker, Generate, Propose, GenerationRaises, GenerationSync,
       Handle, WriteCandidate, CancelPlan, SyncRead, SyncWrite, ApprovePlan, Request, Execute,
       ExecStep, ExecuteSync, ListApproved, LookUp, Gate, Verdict, MarkCandidate, ClosePlan,
       EditRule, ApiCrash, outside, vars

\* Only the last step of an execution that closes its plan leaves that place, unless the
\* process dies.
LEMMA WhoCloses ==
  ASSUME Inv, [Next]_vars, NEW e \in Executors, exec[e].pc = "close", exec'[e].pc = "idle",
         crashes' = crashes
  PROVE  ClosePlan(e)
  <1>1. exec' # exec
    OBVIOUS
  <1>2. ~ApiCrash
    BY DEF ApiCrash, Inv, TypeInv, Types
  <1>3. ASSUME NEW d \in Executors, Execute(d) \/ ExecStep(d)
        PROVE  d = e
    <2>1. \E row : exec' = [exec EXCEPT ![d] = row]
      BY <1>3 DEF Execute, ExecStep, ExecuteSync, ListApproved, LookUp, Gate, ClickSend, Verdict,
         PersistRecord, MarkCandidate, ClosePlan, Guarded, Run, End, Outcome, Inv, TypeInv, Types
    <2> QED
      BY <2>1 DEF Inv, TypeInv, Types
  <1>4. Execute(e) \/ ExecStep(e)
    BY <1>1, <1>2, <1>3 DEF Next, Worker, Generate, Propose, GenerationRaises, GenerationSync,
       Handle, WriteCandidate, CancelPlan, SyncRead, SyncWrite, ApprovePlan, Request, EditRule, vars
  <1> QED
    BY <1>4 DEF Execute, ExecStep, ExecuteSync, ListApproved, LookUp, Gate, ClickSend, Verdict,
       PersistRecord, MarkCandidate

\* A record of a send is kept and nothing more is posted for its candidate, and a plan is
\* closed as executed only on such records, as long as no two executions overlapped.
THEOREM SentStaysSent == Spec => SentIsFinal
  <1>1. Inv /\ [Next]_vars => [SentStays /\ ExecutedMeansSent]_vars
    <2> SUFFICES ASSUME Inv, [Next]_vars PROVE SentStays /\ ExecutedMeansSent
      OBVIOUS
    <2>1. SentStays
      <3> SUFFICES ASSUME NEW c \in Candidates \ Raced("executions"), record[c] = "sent"
                   PROVE  record'[c] = "sent" /\ posted'[c] = posted[c]
        BY DEF SentStays
      <3>1. \A e \in Executors : exec[e].pc \in {"click", "persist"} => c \notin exec[e].now
        BY DEF Inv, SentRecords, SentOK, BeforeRecord
      <3> QED
        BY <3>1, WhoSends
    <2>2. ExecutedMeansSent
      <3> SUFFICES ASSUME NEW e \in Executors, exec[e].pc = "close", plan'.status = "executed",
                          exec'[e].pc = "idle", crashes' = crashes,
                          NEW c \in exec[e].listed \ Raced("executions")
                   PROVE  record[c] = "sent"
        BY DEF ExecutedMeansSent
      <3>1. ClosePlan(e)
        BY WhoCloses
      <3>2. exec[e].sent = exec[e].listed
        BY <3>1 DEF ClosePlan, Inv, TypeInv, Types, PlanRow
      <3>3. c \in Candidates /\ c \in exec[e].sent
        BY <3>2 DEF Inv, TypeInv, Types, RunRow
      <3> QED
        BY <3>3 DEF Inv, SentRecords, SentOK
    <2> QED  BY <2>1, <2>2
  <1> QED
    BY <1>1, InvHolds, PTL DEF Spec, SentIsFinal

\* A candidate or a plan that was withdrawn while nobody else was at work is never sent
\* again, and the plan stays cancelled.
THEOREM WithdrawnStaysWithdrawn == Spec => WithdrawnIsFinal
  <1>1. Inv /\ [Next]_vars => [CancelledStays /\ RejectedStays]_vars
    <2> SUFFICES ASSUME Inv, [Next]_vars PROVE CancelledStays /\ RejectedStays
      OBVIOUS
    <2>1. "plan" \in settled => PlanClosed /\ PlanClosed'
      <3>1. settled \subseteq settled'
        BY DEF Next, Worker, Generate, Propose, GenerationRaises, GenerationSync, Handle,
           WriteCandidate, CancelPlan, SyncRead, SyncWrite, ApprovePlan, Request, Execute, ExecStep,
           ExecuteSync, ListApproved, LookUp, Gate, ClickSend, Verdict, PersistRecord,
           MarkCandidate, ClosePlan, EditRule, ApiCrash, rest, vars
      <3>2. Inv'
        BY InvStep
      <3> QED
        BY <3>1, <3>2 DEF Inv, Withdrawn
    <2>2. CancelledStays
      <3> SUFFICES ASSUME "plan" \in settled
                   PROVE  plan'.status = "cancelled" /\ posted' = posted
        BY DEF CancelledStays
      <3>1. \A e \in Executors : exec[e].pc \notin {"click", "persist"}
        BY <2>1 DEF PlanClosed
      <3>2. \A c \in Candidates : posted'[c] = posted[c]
        BY <3>1, WhoSends
      <3>3. Inv'
        BY InvStep
      <3>4. posted \in [Candidates -> [Texts -> Nat]] /\ posted' \in [Candidates -> [Texts -> Nat]]
        BY <3>3 DEF Inv, TypeInv, Types
      <3>5. posted' = posted
        BY <3>2, <3>4
      <3> QED
        BY <2>1, <3>5 DEF PlanClosed
    <2>3. RejectedStays
      <3> SUFFICES ASSUME NEW c \in Candidates, c \in settled
                   PROVE  posted'[c] = posted[c]
        BY DEF RejectedStays
      <3>1. \A e \in Executors : c \notin exec[e].now
        BY DEF Inv, Withdrawn, CandidateClosed, Sending
      <3> QED
        BY <3>1, WhoSends
    <2> QED  BY <2>2, <2>3
  <1> QED
    BY <1>1, InvHolds, PTL DEF Spec, WithdrawnIsFinal

\* The first rule that does not pass a comment on is a rule that asks for it, and comes
\* before all that exclude its author.
LEMMA MatchesMeansAsked ==
  ASSUME NEW c, NEW enabled, Matches(c, enabled)
  PROVE  Asked(c, enabled)
  <1> DEFINE deciding == {i \in enabled : RuleSays(Rules[i], c) # "no"}
             Barred(k) == c.author \cap Rules[k].authors # {}
  <1>1. /\ c.author \cap Campaign.authors = {}
        /\ c.words \cap (Campaign.patterns \cup Campaign.negative) = {}
    BY DEF Matches, ExcludedByCampaign, Mentions
  <1>2. \A k \in enabled : Barred(k) => RuleSays(Rules[k], c) = "excluded"
    BY DEF RuleSays, Mentions
  <1>3. \A k \in enabled : RuleSays(Rules[k], c) = "yes" => Holds(Rules[k], c) /\ ~Barred(k)
    BY DEF RuleSays, Mentions
  <1>4. CASE deciding = {}
    <2>1. \A k \in enabled : ~Barred(k)
      BY <1>2, <1>4
    <2>2. c.words \cap Campaign.positive # {} \/ Recommends(c)
      BY <1>4 DEF Matches, Mentions
    <2> QED
      BY <1>1, <2>1, <2>2 DEF Asked
  <1>5. CASE deciding # {}
    <2>1. PICK i \in deciding : (\A k \in deciding \ {i} : Before(i, k)) /\ RuleSays(Rules[i], c) = "yes"
      BY <1>5 DEF Matches
    <2>2. \A k \in enabled : Barred(k) => Before(i, k)
      BY <1>2, <1>3, <2>1
    <2> QED
      BY <1>1, <1>3, <2>1, <2>2 DEF Asked
  <1> QED
    BY <1>4, <1>5

\* Only the worker makes candidates, one for the reading it looks at.
LEMMA WhoProposes ==
  ASSUME Inv, [Next]_vars, NEW c \in Candidates, cand[c].status = "none", cand'[c].status # "none"
  PROVE  \E i \in DOMAIN Readings : Propose(i) /\ Wanted(i) /\ Readings[i].cand = c
  <1>1. cand' # cand
    OBVIOUS
  <1>2. ASSUME NEW h \in Handlers, WriteCandidate(h) PROVE FALSE
    <2>1. hand[h].op \in Operations /\ cand' = [cand EXCEPT ![hand[h].op.cand] = Written(@, hand[h].op)]
      BY <1>2, WriteTypes DEF Inv
    <2>2. cand[hand[h].op.cand].status # "none"
      BY <1>2 DEF WriteCandidate, Inv, TypeInv, HandOK
    <2> QED
      BY <2>1, <2>2, OperationType DEF Inv, TypeInv, Types
  <1>3. ASSUME NEW e \in Executors, MarkCandidate(e) PROVE FALSE
    <2>1. PICK d \in exec[e].now :
            cand' = [cand EXCEPT ![d].status = IF exec[e].outcome = "sent" THEN "sent" ELSE "failed"]
      BY <1>3 DEF MarkCandidate
    <2>2. d \in Candidates /\ cand[d].status # "none"
      BY DEF Inv, TypeInv, Types, RunRow, ExecOK, Sending
    <2>3. c # d => cand'[c] = cand[c]
      BY <2>1 DEF Inv, TypeInv, Types
    <2> QED
      BY <2>2, <2>3
  <1>4. PICK i \in DOMAIN Readings : Propose(i)
    BY <1>1, <1>2, <1>3 DEF Next, Worker, Generate, GenerationRaises, GenerationSync, Handle,
       CancelPlan, SyncRead, SyncWrite, ApprovePlan, Request, Execute, ExecStep, ExecuteSync,
       ListApproved, LookUp, Gate, ClickSend, Verdict, PersistRecord, ClosePlan, EditRule,
       ApiCrash, outside, vars
  <1>5. Wanted(i)
    BY <1>1, <1>4 DEF Propose
  <1>6. Readings[i].cand # c => cand'[c] = cand[c]
    BY <1>4, <1>5 DEF Propose, BlockCandidate, RenderCandidate, Inv, TypeInv, Types
  <1> QED
    BY <1>4, <1>5, <1>6

\* Candidates are made only for readings that may be answered, of comments that the rules
\* the worker read ask for.
THEOREM CandidatesAreAskedFor == Spec => ProposedByRule
  <1> DEFINE P == \A c \in Candidates : cand[c].status = "none" /\ cand'[c].status # "none" =>
                    \E i \in worker.left \ worker'.left :
                       /\ Readings[i].cand = c /\ Readings[i].allowed
                       /\ Asked(Readings[i].comment, worker.rules)
  <1>1. Inv /\ [Next]_vars => P
    <2> SUFFICES ASSUME Inv, [Next]_vars, NEW c \in Candidates,
                        cand[c].status = "none", cand'[c].status # "none"
                 PROVE  \E i \in worker.left \ worker'.left :
                          /\ Readings[i].cand = c /\ Readings[i].allowed
                          /\ Asked(Readings[i].comment, worker.rules)
      OBVIOUS
    <2>1. PICK i \in DOMAIN Readings : Propose(i) /\ Wanted(i) /\ Readings[i].cand = c
      BY WhoProposes
    <2>2. i \in worker.left \ worker'.left /\ Readings[i].allowed
      BY <2>1 DEF Propose, Inv, TypeInv, Types, WorkerRow, WorkerOK
    <2>3. Asked(Readings[i].comment, worker.rules)
      BY <2>1, MatchesMeansAsked DEF Wanted
    <2> QED
      BY <2>1, <2>2, <2>3
  <1>2. Spec => [][P]_vars
    BY <1>1, InvHolds, PTL DEF Spec
  <1> QED
    BY <1>2 DEF ProposedByRule

=============================================================================
