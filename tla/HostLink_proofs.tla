---------------------------- MODULE HostLink_proofs ----------------------------
(***************************************************************************)
(* Theorems about HostLink, for any components, slots, firmware builds,     *)
(* payloads and numbers of faults and jobs: what the engine holds has its   *)
(* types; the live state always has the layout of the running firmware; and *)
(* what a host takes for the outcome of its job is what happened.           *)
(*                                                                         *)
(* The engine refuses a foreign blob once, at BLOB_BEGIN; the chunks and    *)
(* the commit that follow are not compared with the schema again.  That is  *)
(* sound only because of what is in flight: a host sends them after an      *)
(* answer Ok to its own BLOB_BEGIN (RequestsOwn, AnswersOwn), and a restart *)
(* empties the link (StageOwn).  Likewise nothing in a request names the    *)
(* transaction, snapshot or version it belongs to: that it is the host's    *)
(* own follows from the order of the link (JobInv).                         *)
(***************************************************************************)
EXTENDS HostLink, SequenceTheorems, TLAPS

InFlight(q) == {q[k] : k \in DOMAIN q}

IsQueue(q) == \E S : q \in Seq(S)

PushCommands == {"BlobBegin", "BlobData", "BlobCommit"}

\* What a request on the link looks like: its command is its job's.
Fits(f) ==
  /\ f = [seq |-> f.seq, cmd |-> f.cmd, job |-> f.job, pos |-> f.pos]
  /\ f.job \in Jobs
  /\ f.job.kind = "push" => f.cmd \in PushCommands \cup {"Damaged"}
  /\ f.cmd \in PushCommands => f.job \in Pushes
  /\ f.cmd = "BlobData" => f.pos \in Managed
  /\ f.cmd \in {"SaveToSlot", "LoadFromSlot", "EraseSlot"} => f.job.target \in Slots
  /\ f.cmd = "Reboot" => f.job.mode \in Modes

\* Chunks and commits on the link are for the running firmware, and a
\* request with the number the host waits for is of its present job.
RequestsOwn ==
  /\ IsQueue(rx)
  /\ \A f \in InFlight(rx) :
       /\ Fits(f)
       /\ f.cmd \in {"BlobData", "BlobCommit"} => f.job.stamp = schema
       /\ host.waiting /\ f.seq = host.seq => f.job = host.job

\* An Ok that a pushing host waits for says that its blob is for the
\* running firmware.
AnswersOwn ==
  /\ IsQueue(tx)
  /\ \A f \in InFlight(tx) :
       host.waiting /\ f.seq = host.seq /\ f.status = "Ok" /\ host.job.kind = "push"
         => host.job.stamp = schema

HostShape ==
  host = [job |-> host.job, pos |-> host.pos, seq |-> host.seq,
          waiting |-> host.waiting, retried |-> host.retried, got |-> host.got,
          result |-> host.result]

HostOwn ==
  /\ HostShape
  /\ host.job \in Jobs \cup {Idle}
  /\ host.pos \in 0 .. LastStep(host.job)
  /\ host.job.kind = "push" /\ host.pos > 0 => host.job.stamp = schema

StageOwn ==
  /\ stage \in [open : BOOLEAN, target : Slots \cup {Live},
                stamp : Schemas \cup {None}, staging : Seq(Piece)]
  /\ Len(stage.staging) <= NumManaged
  /\ stage.open => stage.stamp = schema

ReadersOK ==
  /\ snap \in Bytes \cup {None}
  /\ desc \in 1 .. MaxDesc /\ descOk \in BOOLEAN
  /\ reboot \in Modes \cup {None}

PresetsOwn == PresetsTypeOK /\ StampsTell /\ LiveIsOwn

Inv ==
  /\ PresetsOwn
  /\ StageOwn
  /\ ReadersOK
  /\ HostOwn
  /\ RequestsOwn
  /\ AnswersOwn
  /\ faults \in 0 .. MaxFaults

-----------------------------------------------------------------------------
(* Constants and queues                                                    *)

\* What the proofs use of the constants.
LEMMA Constants ==
  /\ NumManaged \in Nat \ {0} /\ Default \in Contents /\ Shipped \in Schemas
  /\ BootSlot \in Slots /\ Older \subseteq TrueRecord /\ None \notin Record
  /\ Payloads \subseteq [Managed -> Contents]
  /\ DescChunks \in Nat \ {0} /\ MaxDesc \in Nat \ {0} /\ MaxFaults \in Nat
BY PresetsAssumption, HostLinkAssumption

\* Taking the head of a queue leaves a queue of what else was in it.
LEMMA TailOfQueue ==
  ASSUME NEW q, IsQueue(q), q # <<>>
  PROVE  /\ IsQueue(Tail(q)) /\ InFlight(Tail(q)) \subseteq InFlight(q)
         /\ Head(q) \in InFlight(q)
<1>1. PICK S : q \in Seq(S)
  BY DEF IsQueue
<1>2. Len(q) \in Nat /\ Len(q) > 0 /\ DOMAIN q = 1 .. Len(q)
  BY <1>1
<1>3. /\ Tail(q) \in Seq(S) /\ Len(Tail(q)) = Len(q) - 1
      /\ \A k \in 1 .. Len(q) - 1 : Tail(q)[k] = q[k + 1]
  BY <1>1, <1>2
<1>4. DOMAIN Tail(q) = 1 .. Len(q) - 1
  BY <1>3, <1>2
<1>5. InFlight(Tail(q)) \subseteq InFlight(q)
  BY <1>2, <1>3, <1>4 DEF InFlight
<1>6. Head(q) \in InFlight(q)
  BY <1>1, <1>2 DEF InFlight
<1> QED BY <1>3, <1>5, <1>6 DEF IsQueue

\* A sent frame joins what is in flight.
LEMMA AppendToQueue ==
  ASSUME NEW q, NEW e, IsQueue(q)
  PROVE  IsQueue(Append(q, e)) /\ InFlight(Append(q, e)) = InFlight(q) \cup {e}
<1>1. PICK S : q \in Seq(S)
  BY DEF IsQueue
<1>2. q \in Seq(S \cup {e}) /\ Len(q) \in Nat /\ DOMAIN q = 1 .. Len(q)
  BY <1>1
<1>3. /\ Append(q, e) \in Seq(S \cup {e})
      /\ Len(Append(q, e)) = Len(q) + 1
      /\ \A k \in 1 .. Len(q) : Append(q, e)[k] = q[k]
      /\ Append(q, e)[Len(q) + 1] = e
  BY <1>2
<1>4. DOMAIN Append(q, e) = 1 .. Len(q) + 1
  BY <1>2, <1>3
<1>5. InFlight(Append(q, e)) = InFlight(q) \cup {e}
  BY <1>2, <1>3, <1>4 DEF InFlight
<1> QED BY <1>3, <1>5 DEF IsQueue

\* A frame that is damaged takes the place of what it was.
LEMMA ChangeInQueue ==
  ASSUME NEW q, NEW e, IsQueue(q), NEW k \in DOMAIN q
  PROVE  /\ IsQueue([q EXCEPT ![k] = e])
         /\ InFlight([q EXCEPT ![k] = e]) \subseteq InFlight(q) \cup {e}
<1>1. PICK S : q \in Seq(S)
  BY DEF IsQueue
<1>2. q \in Seq(S \cup {e}) /\ k \in 1 .. Len(q) /\ DOMAIN q = 1 .. Len(q)
  BY <1>1
<1>3. [q EXCEPT ![k] = e] \in Seq(S \cup {e})
  BY <1>2, ExceptSeq
<1>4. InFlight([q EXCEPT ![k] = e]) \subseteq InFlight(q) \cup {e}
  BY DEF InFlight
<1> QED BY <1>3, <1>4 DEF IsQueue

\* An empty link is a queue.
LEMMA EmptyQueue == IsQueue(<<>>) /\ InFlight(<<>>) = {}
BY DEF IsQueue, InFlight

-----------------------------------------------------------------------------
(* Presets                                                                 *)

Own(bytes, h) == bytes \in Bytes /\ \A c \in Managed : bytes[c].enc = h

\* Bytes of one layout restored over bytes of the same give bytes of it.
LEMMA RestoredOwn ==
  ASSUME NEW old, NEW bytes, NEW h, Own(old, h), Own(bytes, h)
  PROVE  Own(Restored(old, bytes), h)
BY DEF Own, Restored, Bytes

\* The live state after a start is of the started firmware's layout.
LEMMA StartedOwn ==
  ASSUME NEW h \in Schemas, NEW r \in TrueRecord \cup {None}
  PROVE  /\ Own(Factory(h), h)
         /\ StampMatches(r, h) => Own(Restored(Factory(h), r.bytes), h)
<1>1. Own(Factory(h), h)
  BY Constants DEF Own, Factory, Bytes, Piece
<1>2. ASSUME StampMatches(r, h) PROVE Own(r.bytes, h)
  BY <1>2 DEF StampMatches, TrueRecord, Record, Own
<1> QED BY <1>1, <1>2, RestoredOwn

\* What a host pushes is of the layout of its stamp.
LEMMA PushIsOfItsStamp ==
  ASSUME NEW job \in Pushes
  PROVE  Own(PushBytes(job), job.stamp) /\ job.stamp \in Schemas
<1>1. job.stamp \in Schemas /\ job.says \in [Managed -> Contents]
  BY Constants DEF Pushes
<1> QED BY <1>1 DEF Own, PushBytes, Bytes, Piece

\* Each call of Presets keeps the live state and the records as they should be.
LEMMA CallsKeepOwn ==
  ASSUME PresetsOwn
  PROVE  /\ \A bytes : Own(bytes, schema) /\ DeserializeLive(bytes) => PresetsOwn'
         /\ \A s \in Slots : Load(s) => PresetsOwn'
         /\ \A s, bytes, ok : Own(bytes, schema) /\ WriteSlotRaw(s, schema, bytes, ok)
              => PresetsOwn'
         /\ \A s, ok : Save(s, ok) => PresetsOwn'
         /\ \A s \in Slots : \A ok : EraseSlot(s, ok) => PresetsOwn'
         /\ \A h \in Schemas : Start(h) => PresetsOwn'
         /\ \A c \in Managed, x \in Contents : Edit(c, x) => PresetsOwn'
         /\ UNCHANGED presets => PresetsOwn'
<1>1. /\ Own(live, schema) /\ schema \in Schemas
      /\ stored \in [Slots -> Record \cup {None}]
      /\ \A s \in Slots : stored[s] \in TrueRecord \cup {None}
  BY DEF PresetsOwn, PresetsTypeOK, StampsTell, LiveIsOwn, Own
<1>2. ASSUME Own(live', schema'), schema' \in Schemas,
             stored' \in [Slots -> Record \cup {None}],
             \A s \in Slots : stored'[s] \in TrueRecord \cup {None}
      PROVE  PresetsOwn'
  BY <1>2 DEF PresetsOwn, PresetsTypeOK, StampsTell, LiveIsOwn, Own
<1>3. ASSUME NEW bytes, Own(bytes, schema), DeserializeLive(bytes)
      PROVE  PresetsOwn'
  BY <1>1, <1>2, <1>3, RestoredOwn DEF DeserializeLive
<1>4. ASSUME NEW s \in Slots, Load(s) PROVE PresetsOwn'
  <2>1. CASE HasValid(s)
    <3>1. Own(stored[s].bytes, schema)
      BY <1>1, <2>1 DEF HasValid, StampMatches, TrueRecord, Record, Own
    <3> QED BY <1>1, <1>2, <1>4, <2>1, <3>1, RestoredOwn DEF Load
  <2>2. CASE ~HasValid(s)
    BY <1>1, <1>2, <1>4, <2>2 DEF Load
  <2> QED BY <2>1, <2>2
<1>5. ASSUME NEW s, NEW bytes, NEW ok, Own(bytes, schema),
             WriteSlotRaw(s, schema, bytes, ok)
      PROVE  PresetsOwn'
  <2>1. [stamp |-> schema, bytes |-> bytes] \in TrueRecord
    BY <1>1, <1>5 DEF TrueRecord, Record, Own
  <2>2. [stamp |-> schema, bytes |-> bytes] \in Record
    BY <2>1 DEF TrueRecord
  <2>3. live' = live /\ schema' = schema
    BY <1>5 DEF WriteSlotRaw
  <2>4. \/ stored' = stored
        \/ stored' = [stored EXCEPT ![s] = [stamp |-> schema, bytes |-> bytes]]
    BY <1>5 DEF WriteSlotRaw
  <2> QED BY <1>1, <1>2, <2>1, <2>2, <2>3, <2>4
<1>6. ASSUME NEW s, NEW ok, Save(s, ok) PROVE PresetsOwn'
  BY <1>1, <1>5, <1>6 DEF Save
<1>7. ASSUME NEW s \in Slots, NEW ok, EraseSlot(s, ok) PROVE PresetsOwn'
  <2>1. PICK r \in TrueRecord \cup {None} : stored' = [stored EXCEPT ![s] = r]
    BY <1>1, <1>7, Constants DEF EraseSlot
  <2>2. r \in Record \cup {None}
    BY <2>1 DEF TrueRecord
  <2>3. live' = live /\ schema' = schema
    BY <1>7 DEF EraseSlot
  <2> QED BY <1>1, <1>2, <2>1, <2>2, <2>3
<1>8. ASSUME NEW h \in Schemas, Start(h) PROVE PresetsOwn'
  <2>1. /\ Own(Factory(h), h)
        /\ StampMatches(stored[BootSlot], h)
             => Own(Restored(Factory(h), stored[BootSlot].bytes), h)
    BY <1>1, Constants, StartedOwn
  <2> QED BY <1>1, <1>2, <1>8, <2>1 DEF Start
<1>9. ASSUME NEW c \in Managed, NEW x \in Contents, Edit(c, x) PROVE PresetsOwn'
  <2>1. Own(live', schema)
    BY <1>1, <1>9 DEF Edit, Own, Bytes, Piece
  <2> QED BY <1>1, <1>2, <1>9, <2>1 DEF Edit
<1>10. ASSUME UNCHANGED presets PROVE PresetsOwn'
  BY <1>1, <1>2, <1>10 DEF presets
<1> QED BY <1>3, <1>4, <1>5, <1>6, <1>7, <1>8, <1>9, <1>10

-----------------------------------------------------------------------------
(* Jobs                                                                    *)

\* The request a host sends is one that its job may have at that step.
LEMMA CommandOfJob ==
  ASSUME NEW job \in Jobs, NEW pos \in 0 .. LastStep(job), NEW n
  PROVE  /\ Fits([seq |-> n, cmd |-> Command(job, pos), job |-> job, pos |-> pos])
         /\ Command(job, pos) \in {"BlobData", "BlobCommit"}
              => job.kind = "push" /\ pos > 0
<1> DEFINE f == [seq |-> n, cmd |-> Command(job, pos), job |-> job, pos |-> pos]
<1>1. NumManaged \in Nat \ {0} /\ DescChunks \in Nat \ {0}
  BY Constants
<1>2. CASE job \in Pushes
  <2>1. job.kind = "push" /\ pos \in 0 .. NumManaged + 1
    BY <1>1, <1>2 DEF Pushes, LastStep
  <2>2. CASE pos = 0
    BY <2>1, <2>2, <1>1, <1>2 DEF Command, Fits, PushCommands, Managed, Jobs
  <2>3. CASE pos \in Managed
    <3>1. Command(job, pos) = "BlobData"
      BY <2>1, <2>3, <1>1 DEF Command, Managed
    <3> QED BY <3>1, <2>1, <2>3, <1>1, <1>2 DEF Fits, PushCommands, Managed, Jobs
  <2>4. CASE pos = NumManaged + 1
    <3>1. Command(job, pos) = "BlobCommit"
      BY <2>1, <2>4, <1>1 DEF Command, Managed
    <3> QED BY <3>1, <2>1, <2>4, <1>1, <1>2 DEF Fits, PushCommands, Managed, Jobs
  <2> QED BY <1>1, <2>1, <2>2, <2>3, <2>4 DEF Managed
<1>3. CASE job \in [kind : {"pull", "describe"}]
  <2>1. Command(job, pos) \in {"GetLive", "GetDescriptor"} /\ job.kind # "push"
    BY <1>3 DEF Command
  <2> QED BY <2>1 DEF Fits, PushCommands
<1>4. CASE job \in [kind : {"save", "load", "erase"}, target : Slots]
  <2>1. /\ Command(job, pos) \in {"SaveToSlot", "LoadFromSlot", "EraseSlot"}
        /\ job.kind # "push" /\ job.target \in Slots
    BY <1>4 DEF Command
  <2> QED BY <2>1 DEF Fits, PushCommands
<1>5. CASE job \in [kind : {"reboot"}, mode : Modes]
  <2>1. Command(job, pos) = "Reboot" /\ job.kind # "push" /\ job.mode \in Modes
    BY <1>5 DEF Command
  <2> QED BY <2>1 DEF Fits, PushCommands
<1> QED BY <1>2, <1>3, <1>4, <1>5 DEF Jobs

\* The steps of every job are counted from 0 to a natural number.
LEMMA StepsOfJob ==
  ASSUME NEW job \in Jobs \cup {Idle}
  PROVE  LastStep(job) \in Nat
<1>1. NumManaged \in Nat \ {0} /\ DescChunks \in Nat \ {0}
  BY Constants
<1> QED BY <1>1 DEF LastStep

-----------------------------------------------------------------------------
(* Steps of the engine                                                     *)

\* A served request takes the head of the receive queue; an Ok to a push says
\* that its blob is for the running firmware.
Responded ==
  /\ rx # <<>> /\ rx' = Tail(rx)
  /\ \/ tx' = tx
     \/ \E status, data :
          /\ tx' = Append(tx, [seq |-> Head(rx).seq, status |-> status, data |-> data])
          /\ status = "Ok" /\ Head(rx).job.kind = "push"
               => Head(rx).job.stamp = schema

\* Any response leaves both queues and the host in order.
LEMMA ResponseKeepsOwn ==
  ASSUME Inv, Responded, UNCHANGED <<host, schema>>
  PROVE  HostOwn' /\ RequestsOwn' /\ AnswersOwn'
<1>1. HostOwn'
  BY DEF Inv, HostOwn, HostShape
<1>2. /\ IsQueue(rx) /\ IsQueue(Tail(rx)) /\ InFlight(Tail(rx)) \subseteq InFlight(rx)
      /\ Head(rx) \in InFlight(rx)
  BY TailOfQueue DEF Inv, RequestsOwn, Responded
<1>3. RequestsOwn'
  BY <1>2 DEF Inv, RequestsOwn, Responded
<1>4. CASE tx' = tx
  BY <1>1, <1>3, <1>4 DEF Inv, AnswersOwn, IsQueue, InFlight
<1>5. CASE tx' # tx
  <2>1. PICK status, data :
          /\ tx' = Append(tx, [seq |-> Head(rx).seq, status |-> status, data |-> data])
          /\ status = "Ok" /\ Head(rx).job.kind = "push"
               => Head(rx).job.stamp = schema
    BY <1>5 DEF Responded
  <2> DEFINE e == [seq |-> Head(rx).seq, status |-> status, data |-> data]
  <2>2. IsQueue(tx') /\ InFlight(tx') = InFlight(tx) \cup {e}
    BY <2>1, AppendToQueue DEF Inv, AnswersOwn
  <2>3. host.waiting /\ e.seq = host.seq => Head(rx).job = host.job
    BY <1>2 DEF Inv, RequestsOwn
  <2>4. host.waiting /\ e.seq = host.seq /\ e.status = "Ok" /\ host.job.kind = "push"
          => host.job.stamp = schema
    BY <2>1, <2>3
  <2>5. \A f \in InFlight(tx) :
          host.waiting /\ f.seq = host.seq /\ f.status = "Ok" /\ host.job.kind = "push"
            => host.job.stamp = schema
    BY DEF Inv, AnswersOwn
  <2>6. \A f \in InFlight(tx') :
          host.waiting /\ f.seq = host.seq /\ f.status = "Ok" /\ host.job.kind = "push"
            => host.job.stamp = schema
    BY <2>2, <2>4, <2>5
  <2> QED BY <1>1, <1>3, <2>2, <2>6 DEF AnswersOwn, IsQueue, InFlight
<1> QED BY <1>4, <1>5

\* The answers of the handlers are responses, and cost no more than is left.
LEMMA Answered ==
  ASSUME Inv, NEW cmd, Serving(cmd)
  PROVE  /\ \A status :
              /\ Answer(status)
              /\ status = "Ok" /\ Head(rx).job.kind = "push"
                   => Head(rx).job.stamp = schema
              => Responded /\ faults' \in 0 .. MaxFaults
         /\ \A ok : FlashAnswer(ok) /\ Head(rx).job.kind # "push"
              => Responded /\ faults' \in 0 .. MaxFaults
         /\ \A ok : FlashAnswer(ok) /\ Head(rx).job.stamp = schema
              => Responded /\ faults' \in 0 .. MaxFaults
         /\ \A data : (\E sent \in BOOLEAN : Spend(Cost(sent)) /\ Send("Ok", data, sent))
                      /\ Head(rx).job.kind # "push"
              => Responded /\ faults' \in 0 .. MaxFaults
<1>1. faults \in 0 .. MaxFaults /\ MaxFaults \in Nat
  BY Constants DEF Inv
<1>2. \A n \in Nat : Spend(n) => faults' \in 0 .. MaxFaults
  BY <1>1 DEF Spend
<1>3. \A b, c : Cost(b) \in Nat /\ Cost(b) + Cost(c) \in Nat
  BY DEF Cost
<1>4. \A status, data, sent :
        /\ Send(status, data, sent)
        /\ status = "Ok" /\ Head(rx).job.kind = "push" => Head(rx).job.stamp = schema
        => Responded
  BY DEF Send, Responded, Serving
<1> QED BY <1>2, <1>3, <1>4 DEF Answer, FlashAnswer, FlashStatus

\* The request at the head of the receive queue is one that its job sends.
LEMMA HeadFits ==
  ASSUME Inv, NEW cmd, Serving(cmd)
  PROVE  /\ Head(rx).cmd = cmd /\ Fits(Head(rx))
         /\ cmd \in {"BlobData", "BlobCommit"} => Head(rx).job.stamp = schema
BY TailOfQueue DEF Inv, RequestsOwn, Serving

\* What a handler must show for the rest of the invariant to stand.
LEMMA HandlerKeepsInv ==
  ASSUME Inv, Responded, UNCHANGED <<host, schema>>, PresetsOwn', StageOwn',
         ReadersOK', faults' \in 0 .. MaxFaults
  PROVE  Inv'
BY ResponseKeepsOwn DEF Inv

\* A closed stage is in order.
LEMMA AbortKeepsOwn ==
  ASSUME AbortStage
  PROVE  StageOwn'
BY Constants DEF AbortStage, Closed, StageOwn

\* BLOB_BEGIN opens a stage for the running firmware's layout, or none.
LEMMA BlobBeginKeepsInv ==
  ASSUME Inv, ServeBlobBegin, UNCHANGED host
  PROVE  Inv'
<1> DEFINE job == Head(rx).job
<1>1. Serving("BlobBegin") /\ job \in Pushes /\ UNCHANGED presets
  BY HeadFits DEF ServeBlobBegin, Fits, PushCommands
<1>2. PresetsOwn' /\ UNCHANGED schema
  BY <1>1, CallsKeepOwn DEF Inv, presets
<1>3. ReadersOK'
  BY DEF ServeBlobBegin, Inv, ReadersOK
<1>4. CASE job.stamp = schema
  <2>1. OpenStage(job) /\ Answer("Ok")
    BY <1>4 DEF ServeBlobBegin
  <2>2. job.target \in Slots \cup {Live} /\ job.stamp \in Schemas
    BY <1>1 DEF Pushes
  <2>3. StageOwn'
    BY <1>2, <1>4, <2>1, <2>2, Constants DEF OpenStage, StageOwn
  <2>4. Responded /\ faults' \in 0 .. MaxFaults
    BY <1>1, <1>4, <2>1, Answered
  <2> QED BY <1>2, <1>3, <2>3, <2>4, HandlerKeepsInv
<1>5. CASE job.stamp # schema
  <2>1. AbortStage /\ Answer("SchemaMismatch")
    BY <1>5 DEF ServeBlobBegin
  <2>2. Responded /\ faults' \in 0 .. MaxFaults
    BY <1>1, <2>1, Answered
  <2> QED BY <1>2, <1>3, <2>1, <2>2, AbortKeepsOwn, HandlerKeepsInv
<1> QED BY <1>4, <1>5

\* BLOB_DATA appends the next chunk, or closes the stage.
LEMMA BlobDataKeepsInv ==
  ASSUME Inv, ServeBlobData, UNCHANGED host
  PROVE  Inv'
<1> DEFINE job == Head(rx).job
           pos == Head(rx).pos
<1>1. /\ Serving("BlobData") /\ job \in Pushes /\ pos \in Managed
      /\ job.stamp = schema /\ UNCHANGED presets
  BY HeadFits DEF ServeBlobData, Fits, PushCommands
<1>2. PresetsOwn' /\ UNCHANGED schema
  BY <1>1, CallsKeepOwn DEF Inv, presets
<1>3. ReadersOK'
  BY DEF ServeBlobData, Inv, ReadersOK
<1>4. \E status : Answer(status)
  BY DEF ServeBlobData
<1>5. Responded /\ faults' \in 0 .. MaxFaults
  BY <1>1, <1>4, Answered
<1>6. StageOwn'
  <2>1. StageOwn
    BY DEF Inv
  <2>2. CASE UNCHANGED stage
    BY <1>2, <2>1, <2>2 DEF StageOwn
  <2>3. CASE AbortStage
    BY <2>3, AbortKeepsOwn
  <2>4. CASE /\ stage.open /\ InOrder(pos)
             /\ stage' = [stage EXCEPT !.staging = Append(@, PushBytes(job)[pos])]
    <3>1. PushBytes(job)[pos] \in Piece
      BY <1>1, PushIsOfItsStamp DEF Own, Bytes
    <3>2. stage.staging \in Seq(Piece) /\ Len(stage.staging) = pos - 1
      BY <2>1, <2>4, <1>1 DEF StageOwn, InOrder, Managed
    <3>3. /\ Append(stage.staging, PushBytes(job)[pos]) \in Seq(Piece)
          /\ Len(Append(stage.staging, PushBytes(job)[pos])) <= NumManaged
      BY <1>1, <3>1, <3>2, Constants DEF Managed
    <3> QED BY <1>2, <2>1, <2>4, <3>3 DEF StageOwn
  <2> QED BY <2>2, <2>3, <2>4 DEF ServeBlobData
<1> QED BY <1>2, <1>3, <1>5, <1>6, HandlerKeepsInv

\* BLOB_COMMIT applies what was pushed to the live state or to a slot.
LEMMA BlobCommitKeepsInv ==
  ASSUME Inv, ServeBlobCommit, UNCHANGED host
  PROVE  Inv'
<1> DEFINE job == Head(rx).job
<1>1. Serving("BlobCommit") /\ job \in Pushes /\ job.stamp = schema
  BY HeadFits DEF ServeBlobCommit, Fits, PushCommands
<1>2. StageOwn' /\ ReadersOK'
  BY AbortKeepsOwn DEF ServeBlobCommit, Inv, ReadersOK
<1>3. Own(PushBytes(job), schema) /\ PresetsOwn
  BY <1>1, PushIsOfItsStamp DEF Inv
<1>4. CASE UNCHANGED presets /\ \E status : Answer(status)
  BY <1>1, <1>2, <1>3, <1>4, Answered, CallsKeepOwn, HandlerKeepsInv DEF presets
<1>5. CASE /\ CrcMatches(job)
           /\ DeserializeLive(stage.staging)
           /\ \E status : Answer(status)
  <2>1. PresetsOwn'
    BY <1>3, <1>5, CallsKeepOwn DEF CrcMatches
  <2>2. Responded /\ faults' \in 0 .. MaxFaults
    BY <1>1, <1>5, Answered
  <2>3. UNCHANGED schema
    BY <1>5 DEF DeserializeLive
  <2> QED BY <1>2, <2>1, <2>2, <2>3, HandlerKeepsInv
<1>6. CASE /\ CommitReady /\ CrcMatches(job)
           /\ \E ok \in BOOLEAN :
                /\ WriteSlotRaw(stage.target, stage.stamp, stage.staging, ok)
                /\ FlashAnswer(ok)
  <2>1. PICK ok \in BOOLEAN :
          /\ WriteSlotRaw(stage.target, stage.stamp, stage.staging, ok)
          /\ FlashAnswer(ok)
    BY <1>6
  <2>2. stage.stamp = schema /\ stage.staging = PushBytes(job)
    BY <1>6 DEF CommitReady, CrcMatches, Inv, StageOwn
  <2>3. PresetsOwn'
    BY <1>3, <2>1, <2>2, CallsKeepOwn
  <2>4. Responded /\ faults' \in 0 .. MaxFaults
    BY <1>1, <2>1, Answered
  <2>5. UNCHANGED schema
    BY <2>1 DEF WriteSlotRaw
  <2> QED BY <1>2, <2>3, <2>4, <2>5, HandlerKeepsInv
<1> QED BY <1>4, <1>5, <1>6 DEF ServeBlobCommit

\* GET_LIVE and GET_DESCRIPTOR move only the reader's state.
LEMMA ReadsKeepInv ==
  ASSUME Inv, ServeGetLive \/ ServeGetDescriptor, UNCHANGED host
  PROVE  Inv'
<1>1. PresetsOwn' /\ StageOwn' /\ UNCHANGED schema
  BY CallsKeepOwn DEF Inv, ServeGetLive, ServeGetDescriptor, presets, StageOwn
<1>2. live \in Bytes
  BY DEF Inv, PresetsOwn, PresetsTypeOK
<1>3. ReadersOK'
  BY <1>2 DEF Inv, ServeGetLive, ServeGetDescriptor, ReadersOK, Snapshot
<1>4. /\ Serving("GetLive") \/ Serving("GetDescriptor")
      /\ Head(rx).job.kind # "push"
  BY HeadFits DEF ServeGetLive, ServeGetDescriptor, Fits, PushCommands
<1>5. \/ \E status : Answer(status)
      \/ \E data : \E sent \in BOOLEAN : Spend(Cost(sent)) /\ Send("Ok", data, sent)
  BY DEF ServeGetLive, ServeGetDescriptor
<1>6. Responded /\ faults' \in 0 .. MaxFaults
  BY <1>4, <1>5, Answered
<1> QED BY <1>1, <1>3, <1>6, HandlerKeepsInv

\* SAVE_TO_SLOT, LOAD_FROM_SLOT and ERASE_SLOT are calls of Presets.
LEMMA SlotsKeepInv ==
  ASSUME Inv, ServeSaveToSlot \/ ServeLoadFromSlot \/ ServeEraseSlot, UNCHANGED host
  PROVE  Inv'
<1>1. PICK cmd \in {"SaveToSlot", "LoadFromSlot", "EraseSlot"} : Serving(cmd)
  BY DEF ServeSaveToSlot, ServeLoadFromSlot, ServeEraseSlot
<1>2. Head(rx).job.target \in Slots /\ Head(rx).job.kind # "push"
  BY <1>1, HeadFits DEF Fits, PushCommands
<1>3. PresetsOwn' /\ UNCHANGED schema
  BY <1>2, CallsKeepOwn DEF Inv, ServeSaveToSlot, ServeLoadFromSlot, ServeEraseSlot,
                            Save, Load, EraseSlot, WriteSlotRaw
<1>4. UNCHANGED <<stage, snap, desc, descOk, reboot>>
  BY DEF ServeSaveToSlot, ServeLoadFromSlot, ServeEraseSlot, engine
<1>5. StageOwn' /\ ReadersOK'
  BY <1>3, <1>4 DEF Inv, StageOwn, ReadersOK
<1>6. (\E status : Answer(status)) \/ (\E ok \in BOOLEAN : FlashAnswer(ok))
  BY DEF ServeSaveToSlot, ServeLoadFromSlot, ServeEraseSlot
<1>7. Responded /\ faults' \in 0 .. MaxFaults
  BY <1>1, <1>2, <1>6, Answered
<1> QED BY <1>3, <1>5, <1>7, HandlerKeepsInv

\* REBOOT only notes what is to happen.
LEMMA RebootKeepsInv ==
  ASSUME Inv, ServeReboot, UNCHANGED host
  PROVE  Inv'
<1>1. Serving("Reboot") /\ Head(rx).job.mode \in Modes /\ Head(rx).job.kind # "push"
  BY HeadFits DEF ServeReboot, Fits, PushCommands
<1>2. PresetsOwn' /\ StageOwn' /\ ReadersOK' /\ UNCHANGED schema
  BY <1>1, CallsKeepOwn DEF Inv, ServeReboot, presets, StageOwn, ReadersOK
<1>3. Responded /\ faults' \in 0 .. MaxFaults
  BY <1>1, Answered DEF ServeReboot
<1> QED BY <1>2, <1>3, HandlerKeepsInv

\* A damaged frame is answered, and nothing else.
LEMMA DamagedKeepsInv ==
  ASSUME Inv, ServeDamaged, UNCHANGED host
  PROVE  Inv'
<1>1. PresetsOwn' /\ StageOwn' /\ ReadersOK' /\ UNCHANGED schema
  BY CallsKeepOwn DEF Inv, ServeDamaged, presets, engine, StageOwn, ReadersOK
<1>2. Responded /\ faults' \in 0 .. MaxFaults
  BY Answered DEF ServeDamaged
<1> QED BY <1>1, <1>2, HandlerKeepsInv

-----------------------------------------------------------------------------
(* Steps of the other parties                                              *)

\* Faults stay within their bound.
LEMMA SpendingEnds ==
  ASSUME Inv, NEW n \in Nat, Spend(n)
  PROVE  faults' \in 0 .. MaxFaults
BY Constants DEF Inv, Spend

\* Steps outside the engine leave what it holds.
LEMMA EngineStands ==
  ASSUME Inv, UNCHANGED <<presets, engine>>
  PROVE  PresetsOwn' /\ StageOwn' /\ ReadersOK' /\ UNCHANGED schema
BY CallsKeepOwn DEF Inv, presets, engine, StageOwn, ReadersOK

\* A host that keeps its job and its request, or waits for nothing, leaves the
\* link in order.
LEMMA LinkStands ==
  ASSUME Inv, UNCHANGED <<schema, rx, tx>>,
         ~host'.waiting \/ UNCHANGED host
  PROVE  RequestsOwn' /\ AnswersOwn'
BY DEF Inv, RequestsOwn, AnswersOwn, IsQueue, InFlight

\* What a host record consists of.
LEMMA HostRecord ==
  ASSUME NEW job, NEW pos, NEW seq, NEW waiting, NEW retried, NEW got, NEW result,
         host' = [job |-> job, pos |-> pos, seq |-> seq, waiting |-> waiting,
                  retried |-> retried, got |-> got, result |-> result]
  PROVE  HostShape' /\ host'.job = job /\ host'.pos = pos /\ host'.waiting = waiting
BY DEF HostShape

\* A host without a job.
LEMMA FreeHost ==
  ASSUME Inv, NEW job \in Jobs \cup {Idle}, host' = [Free EXCEPT !.job = job]
  PROVE  HostOwn' /\ ~host'.waiting
<1>1. /\ host' = [job |-> job, pos |-> 0, seq |-> 0, waiting |-> FALSE,
                  retried |-> FALSE, got |-> <<>>, result |-> "none"]
  BY DEF Inv, HostOwn, HostShape, Free
<1>2. LastStep(job) \in Nat
  BY StepsOfJob
<1>3. HostShape' /\ host'.job = job /\ host'.pos = 0 /\ ~host'.waiting
  BY ONLY <1>1, HostRecord
<1>4. host'.pos \in 0 .. LastStep(host'.job)
  BY <1>2, <1>3
<1> QED BY <1>3, <1>4 DEF HostOwn

\* Free is a host whose job is Idle.
LEMMA FreeIsIdle ==
  ASSUME Inv
  PROVE  Free = [Free EXCEPT !.job = Idle]
BY DEF Inv, HostOwn, HostShape, Free

\* A host that starts its job again.
LEMMA RestartedHost ==
  ASSUME Inv, host' = FromTheStart
  PROVE  HostOwn' /\ ~host'.waiting
<1>1. host' = [job |-> host.job, pos |-> 0, seq |-> host.seq, waiting |-> FALSE,
               retried |-> FALSE, got |-> <<>>, result |-> host.result]
  BY DEF Inv, HostOwn, HostShape, FromTheStart
<1>2. host.job \in Jobs \cup {Idle} /\ LastStep(host.job) \in Nat
  BY StepsOfJob DEF Inv, HostOwn
<1> QED BY <1>1, <1>2 DEF HostOwn, HostShape

\* A stage that times out is closed; a new descriptor sends readers back.
LEMMA TimersKeepInv ==
  ASSUME Inv, StageTimesOut \/ SetDescriptor
  PROVE  Inv'
<1>1. PresetsOwn' /\ UNCHANGED <<schema, rx, tx, host>>
  BY CallsKeepOwn DEF Inv, presets, StageTimesOut, SetDescriptor
<1>2. StageOwn'
  BY <1>1, AbortKeepsOwn DEF Inv, StageTimesOut, SetDescriptor, StageOwn
<1>3. ReadersOK'
  <2>1. CASE StageTimesOut
    BY <2>1 DEF Inv, StageTimesOut, ReadersOK
  <2>2. CASE SetDescriptor
    <3>1. desc \in 1 .. MaxDesc /\ desc < MaxDesc /\ desc' = desc + 1
      BY <2>2 DEF Inv, SetDescriptor, ReadersOK
    <3>2. desc' \in 1 .. MaxDesc
      BY <3>1, Constants
    <3>3. descOk' \in BOOLEAN
      BY <2>2 DEF SetDescriptor, StopsReaders
    <3> QED BY <2>2, <3>2, <3>3 DEF Inv, SetDescriptor, ReadersOK
  <2> QED BY <2>1, <2>2
<1>4. HostOwn' /\ RequestsOwn' /\ AnswersOwn'
  BY <1>1, LinkStands DEF Inv, HostOwn, HostShape
<1>5. faults' \in 0 .. MaxFaults
  BY SpendingEnds DEF Inv, StageTimesOut, SetDescriptor
<1> QED BY <1>1, <1>2, <1>3, <1>4, <1>5 DEF Inv

\* A restart empties the link and the engine along with the old schema.
LEMMA StartKeepsInv ==
  ASSUME Inv, RebootFires \/ PowerLoss
  PROVE  Inv'
<1>1. PICK h \in Schemas : StartFirmware(h)
  BY DEF RebootFires, PowerLoss, Inv, PresetsOwn, PresetsTypeOK
<1>2. PresetsOwn'
  BY <1>1, CallsKeepOwn DEF Inv, StartFirmware
<1>3. StageOwn' /\ ReadersOK'
  BY <1>1, AbortKeepsOwn DEF StartFirmware, AbortStage, Inv, ReadersOK
<1>4. HostOwn'
  BY <1>1, FreeIsIdle, FreeHost DEF StartFirmware
<1>5. RequestsOwn' /\ AnswersOwn'
  BY <1>1, EmptyQueue DEF StartFirmware, RequestsOwn, AnswersOwn
<1>6. faults' \in 0 .. MaxFaults
  BY SpendingEnds DEF Inv, RebootFires, PowerLoss
<1> QED BY <1>2, <1>3, <1>4, <1>5, <1>6 DEF Inv

\* The player's moves are calls of Presets.
LEMMA PanelKeepsInv ==
  ASSUME Inv, Panel
  PROVE  Inv'
<1>1. UNCHANGED <<engine, rx, tx, host, faults>>
  BY DEF Panel
<1>2. PresetsOwn' /\ UNCHANGED schema
  BY CallsKeepOwn DEF Inv, Panel, Edit, Save, WriteSlotRaw, Load
<1>3. StageOwn' /\ ReadersOK'
  BY <1>1, <1>2 DEF Inv, engine, StageOwn, ReadersOK
<1>4. HostOwn' /\ RequestsOwn' /\ AnswersOwn'
  BY <1>1, <1>2, LinkStands DEF Inv, HostOwn, HostShape
<1> QED BY <1>1, <1>2, <1>3, <1>4 DEF Inv

\* A new job begins at its first step.
LEMMA HostBeginsKeepsInv ==
  ASSUME Inv, HostBegins
  PROVE  Inv'
<1>1. PICK job \in Jobs : host' = [Free EXCEPT !.job = job]
  BY DEF HostBegins
<1>2. UNCHANGED <<presets, engine, rx, tx, faults>>
  BY DEF HostBegins
<1> QED BY <1>1, <1>2, FreeHost, EngineStands, LinkStands DEF Inv

\* A request has a number of its own, and its command is its job's.
LEMMA HostSendsKeepsInv ==
  ASSUME Inv, HostSends
  PROVE  Inv'
<1> DEFINE f(seq) == [seq |-> seq, cmd |-> Command(host.job, host.pos),
                      job |-> host.job, pos |-> host.pos]
<1>1. PICK seq :
        /\ Unused(seq)
        /\ rx' = Append(rx, f(seq))
        /\ host' = [host EXCEPT !.seq = seq, !.waiting = TRUE]
  BY DEF HostSends
<1>2. UNCHANGED <<presets, engine, tx, faults>>
  BY DEF HostSends
<1>3. PresetsOwn' /\ StageOwn' /\ ReadersOK' /\ UNCHANGED schema
  BY <1>2, EngineStands
<1>4. host.job \in Jobs /\ host.pos \in 0 .. LastStep(host.job)
  BY DEF HostSends, Busy, Inv, HostOwn
<1>5. /\ HostShape'
      /\ host'.job = host.job /\ host'.pos = host.pos /\ host'.seq = seq
  BY <1>1 DEF Inv, HostOwn, HostShape
<1>6. HostOwn'
  BY <1>3, <1>5 DEF Inv, HostOwn
<1>7. /\ Fits(f(seq))
      /\ f(seq).cmd \in {"BlobData", "BlobCommit"} => f(seq).job.stamp = schema
  BY <1>4, CommandOfJob DEF Inv, HostOwn
<1>8. IsQueue(rx') /\ InFlight(rx') = InFlight(rx) \cup {f(seq)}
  BY <1>1, AppendToQueue DEF Inv, RequestsOwn
<1>9. /\ \A g \in InFlight(rx) : g.seq # seq
      /\ \A g \in InFlight(tx) : g.seq # seq
  BY <1>1 DEF Unused, InFlight
<1>10. RequestsOwn'
  <2>1. \A g \in InFlight(rx) :
          Fits(g) /\ (g.cmd \in {"BlobData", "BlobCommit"} => g.job.stamp = schema)
    BY DEF Inv, RequestsOwn
  <2>2. f(seq).job = host.job
    OBVIOUS
  <2>3. \A g \in InFlight(rx') :
          /\ Fits(g) /\ (g.cmd \in {"BlobData", "BlobCommit"} => g.job.stamp = schema')
          /\ host'.waiting /\ g.seq = host'.seq => g.job = host'.job
    <3> HIDE DEF f
    <3> QED BY <1>3, <1>5, <1>7, <1>8, <1>9, <2>1, <2>2
  <2> QED BY <1>8, <2>3 DEF RequestsOwn, IsQueue, InFlight
<1>11. AnswersOwn'
  BY <1>2, <1>5, <1>9 DEF Inv, AnswersOwn, IsQueue, InFlight
<1> QED BY <1>2, <1>3, <1>6, <1>10, <1>11 DEF Inv

\* A host goes past BLOB_BEGIN only on an Ok to it.
LEMMA HostReceivesKeepsInv ==
  ASSUME Inv, HostReceives
  PROVE  Inv'
<1> DEFINE r == Head(tx)
<1>1. UNCHANGED <<presets, engine, rx, faults>> /\ tx # <<>> /\ tx' = Tail(tx)
  BY DEF HostReceives
<1>2. PresetsOwn' /\ StageOwn' /\ ReadersOK' /\ UNCHANGED schema
  BY <1>1, EngineStands
<1>3. /\ IsQueue(tx') /\ InFlight(tx') \subseteq InFlight(tx) /\ r \in InFlight(tx)
  BY <1>1, TailOfQueue DEF Inv, AnswersOwn
<1>4. HostOwn' /\ (~host'.waiting \/ UNCHANGED host)
  <2>1. CASE UNCHANGED host
    BY <1>2, <2>1 DEF Inv, HostOwn, HostShape
  <2>2. CASE Busy /\ host.waiting /\ r.seq = host.seq /\ host' = After(r)
    <3>1. LastStep(host.job) \in Nat
      BY StepsOfJob DEF Inv, HostOwn
    <3>2. r.status = "Ok" /\ host.job.kind = "push" => host.job.stamp = schema
      BY <1>3, <2>2 DEF Inv, AnswersOwn
    <3>3. \/ /\ r.status = "Ok" /\ host.pos # LastStep(host.job)
             /\ host' = [host EXCEPT !.got = Kept(r), !.pos = @ + 1,
                                     !.waiting = FALSE, !.retried = FALSE]
          \/ host' = [host EXCEPT !.got = Kept(r), !.waiting = FALSE, !.result = "ok"]
          \/ host' = FromTheStart
          \/ host' = Free
      BY <2>2 DEF After
    <3>4. CASE /\ r.status = "Ok" /\ host.pos # LastStep(host.job)
               /\ host' = [host EXCEPT !.got = Kept(r), !.pos = @ + 1,
                                       !.waiting = FALSE, !.retried = FALSE]
      <4>1. HostShape' /\ host'.job = host.job /\ host'.pos = host.pos + 1
            /\ ~host'.waiting
        BY <3>4 DEF Inv, HostOwn, HostShape
      <4>2. host.job \in Jobs \cup {Idle} /\ host.pos \in 0 .. LastStep(host.job)
        BY DEF Inv, HostOwn
      <4>3. host.pos + 1 \in 0 .. LastStep(host.job)
        BY <3>1, <3>4, <4>2
      <4> QED BY <1>2, <3>2, <3>4, <4>1, <4>2, <4>3 DEF HostOwn
    <3>5. CASE host' = [host EXCEPT !.got = Kept(r), !.waiting = FALSE, !.result = "ok"]
      <4>1. HostShape' /\ host'.job = host.job /\ host'.pos = host.pos
            /\ ~host'.waiting
        BY <3>5 DEF Inv, HostOwn, HostShape
      <4> QED BY <1>2, <4>1 DEF Inv, HostOwn
    <3>6. CASE host' = FromTheStart
      BY <3>6, RestartedHost
    <3>7. CASE host' = Free
      BY <3>7, FreeIsIdle, FreeHost
    <3> QED BY <3>3, <3>4, <3>5, <3>6, <3>7
  <2> QED BY <2>1, <2>2 DEF HostReceives
<1>5. RequestsOwn'
  BY <1>1, <1>2, <1>4 DEF Inv, RequestsOwn, IsQueue, InFlight
<1>6. AnswersOwn'
  <2>1. \A f \in InFlight(tx') :
          host'.waiting /\ f.seq = host'.seq /\ f.status = "Ok" /\ host'.job.kind = "push"
            => host'.job.stamp = schema'
    BY <1>2, <1>3, <1>4 DEF Inv, AnswersOwn
  <2> QED BY <1>3, <2>1 DEF AnswersOwn, IsQueue, InFlight
<1> QED BY <1>1, <1>2, <1>4, <1>5, <1>6 DEF Inv

\* A host that gives up waits for nothing.
LEMMA HostGivesUpKeepsInv ==
  ASSUME Inv, HostTimesOut \/ HostCrashes
  PROVE  Inv'
<1>1. UNCHANGED <<presets, engine, rx, tx>>
  BY DEF HostTimesOut, HostCrashes
<1>2. PresetsOwn' /\ StageOwn' /\ ReadersOK' /\ UNCHANGED schema
  BY <1>1, EngineStands
<1>3. HostOwn' /\ ~host'.waiting
  <2>1. CASE host' = FromTheStart
    BY <2>1, RestartedHost
  <2>2. CASE host' = Free
    BY <2>2, FreeIsIdle, FreeHost
  <2>3. CASE host' = [host EXCEPT !.waiting = FALSE, !.retried = TRUE]
    <3>1. HostShape' /\ host'.job = host.job /\ host'.pos = host.pos
          /\ ~host'.waiting
      BY <2>3 DEF Inv, HostOwn, HostShape
    <3> QED BY <1>2, <3>1 DEF Inv, HostOwn
  <2> QED BY <2>1, <2>2, <2>3 DEF HostTimesOut, HostCrashes
<1>4. faults' \in 0 .. MaxFaults
  BY SpendingEnds DEF HostTimesOut, HostCrashes
<1> QED BY <1>1, <1>2, <1>3, <1>4, LinkStands DEF Inv

\* A damaged frame is no chunk and no commit.
LEMMA LinkDamagesKeepsInv ==
  ASSUME Inv, LinkDamages
  PROVE  Inv'
<1>1. UNCHANGED <<presets, engine, tx, host>>
  BY DEF LinkDamages
<1>2. PresetsOwn' /\ StageOwn' /\ ReadersOK' /\ UNCHANGED schema
  BY <1>1, EngineStands
<1>3. HostOwn' /\ AnswersOwn'
  BY <1>1, <1>2 DEF Inv, HostOwn, HostShape, AnswersOwn, IsQueue, InFlight
<1>4. PICK k \in DOMAIN rx : rx' = [rx EXCEPT ![k].cmd = "Damaged"]
  BY DEF LinkDamages
<1> DEFINE e == [rx[k] EXCEPT !.cmd = "Damaged"]
<1>5. rx' = [rx EXCEPT ![k] = e]
  BY <1>4
<1>6. IsQueue(rx') /\ InFlight(rx') \subseteq InFlight(rx) \cup {e}
  BY <1>5, ChangeInQueue, ZenonT(60) DEF Inv, RequestsOwn
<1>7. rx[k] \in InFlight(rx)
  BY DEF InFlight
<1>8. Fits(rx[k]) /\ (host.waiting /\ rx[k].seq = host.seq => rx[k].job = host.job)
  BY <1>7 DEF Inv, RequestsOwn
<1>9. /\ e = [seq |-> e.seq, cmd |-> e.cmd, job |-> e.job, pos |-> e.pos]
      /\ e.cmd = "Damaged" /\ e.job = rx[k].job /\ e.seq = rx[k].seq
  BY <1>8 DEF Fits
<1>10. Fits(e) /\ (host.waiting /\ e.seq = host.seq => e.job = host.job)
       /\ e.cmd \notin {"BlobData", "BlobCommit"}
  BY <1>8, <1>9 DEF Fits, PushCommands
<1>11. RequestsOwn'
  <2>1. \A f \in InFlight(rx') :
          /\ Fits(f)
          /\ f.cmd \in {"BlobData", "BlobCommit"} => f.job.stamp = schema'
          /\ host'.waiting /\ f.seq = host'.seq => f.job = host'.job
    <3> HIDE DEF e
    <3> QED BY <1>1, <1>2, <1>6, <1>10 DEF Inv, RequestsOwn
  <2> QED BY <1>6, <2>1 DEF RequestsOwn, IsQueue, InFlight
<1>12. faults' \in 0 .. MaxFaults
  BY SpendingEnds DEF LinkDamages
<1> QED BY <1>2, <1>3, <1>11, <1>12 DEF Inv

-----------------------------------------------------------------------------
(* The theorems                                                            *)

\* The device starts with an empty link, no transaction and a live state of
\* its own layout.
LEMMA InitEstablishesInv == Init => Inv
<1> SUFFICES ASSUME Init PROVE Inv
  OBVIOUS
<1>1. /\ stored \in [Slots -> Older \cup {None}]
      /\ schema \in Schemas /\ schema = Shipped
  BY Constants DEF Init
<1>2. /\ stored \in [Slots -> Record \cup {None}]
      /\ \A s \in Slots : stored[s] \in TrueRecord \cup {None}
  BY <1>1, Constants DEF TrueRecord
<1>3. Own(live, schema)
  BY <1>1, <1>2, Constants, StartedOwn DEF Init
<1>4. PresetsOwn
  BY <1>1, <1>2, <1>3 DEF PresetsOwn, PresetsTypeOK, StampsTell, LiveIsOwn, Own
<1>5. StageOwn /\ ReadersOK
  BY Constants DEF Init, StageOwn, Closed, ReadersOK
<1>6. LastStep(Idle) \in Nat
  BY StepsOfJob
<1>7. HostOwn
  BY <1>6 DEF Init, HostOwn, HostShape, Idle
<1>8. RequestsOwn /\ AnswersOwn
  BY EmptyQueue DEF Init, RequestsOwn, AnswersOwn
<1>9. faults \in 0 .. MaxFaults
  BY Constants DEF Init
<1> QED BY <1>4, <1>5, <1>7, <1>8, <1>9 DEF Inv

\* Every step, of whichever party, keeps the invariant.
LEMMA StepKeepsInv ==
  ASSUME Inv, [Next]_vars
  PROVE  Inv'
<1>1. CASE Serve
  BY <1>1, BlobBeginKeepsInv, BlobDataKeepsInv, BlobCommitKeepsInv, ReadsKeepInv,
     SlotsKeepInv, RebootKeepsInv, DamagedKeepsInv DEF Serve
<1>2. CASE \/ StageTimesOut \/ SetDescriptor \/ RebootFires \/ PowerLoss
           \/ HostSends \/ HostReceives \/ HostTimesOut \/ HostCrashes
           \/ LinkDamages \/ Panel \/ HostBegins
  BY <1>2, TimersKeepInv, StartKeepsInv, HostSendsKeepsInv, HostReceivesKeepsInv,
     HostGivesUpKeepsInv, LinkDamagesKeepsInv, PanelKeepsInv, HostBeginsKeepsInv
<1>3. CASE UNCHANGED vars
  <2>1. UNCHANGED <<presets, engine, rx, tx, host, faults>>
    BY <1>3 DEF vars
  <2> QED BY <2>1, EngineStands, LinkStands DEF Inv, HostOwn, HostShape
<1> QED BY <1>1, <1>2, <1>3 DEF Next

\* Every state of the device, the link and the host is in order.
LEMMA InvHolds == Spec => []Inv
<1>1. Init => Inv
  BY InitEstablishesInv
<1>2. Inv /\ [Next]_vars => Inv'
  BY StepKeepsInv
<1> QED BY <1>1, <1>2, PTL DEF Spec

\* Type correctness of the engine, the presets and the host's progress; in
\* particular no chunk is ever staged beyond the length of a blob.
THEOREM HostLinkTypeCorrect == Spec => []TypeOK
<1>1. Inv => TypeOK
  BY DEF Inv, TypeOK, PresetsOwn, StageOwn, ReadersOK, HostOwn
<1> QED BY <1>1, InvHolds, PTL

\* No load, push, restart or update ever leaves a component with bytes of
\* another layout than the running firmware's, although the schema is compared
\* only where a push begins and a record is loaded (OnBlobBegin, Load,
\* BootLoad).
THEOREM LiveStateIsOwn == Spec => []LiveIsOwn
<1>1. Inv => LiveIsOwn
  BY DEF Inv, PresetsOwn
<1> QED BY <1>1, InvHolds, PTL

-----------------------------------------------------------------------------
(* Jobs                                                                    *)
(*                                                                         *)
(* A host waits for one answer at a time, and the link keeps the order: when *)
(* the answer to its last request is on its way, nothing is left for the     *)
(* device to serve, and from the second step of a job on the device finds    *)
(* requests of that step only.  What the engine holds between two steps of   *)
(* a job is therefore what that job put there.                               *)

\* The frame that the host waits for, or its answer.
Awaited(f) == host.waiting /\ f.seq = host.seq

LinkInOrder ==
  /\ \A f \in InFlight(rx) : f.cmd \in {Command(f.job, f.pos), "Damaged"}
  /\ host.waiting => host.result = "none"
  /\ \A k \in DOMAIN rx : Awaited(rx[k]) => k = Len(rx) /\ rx[k].pos = host.pos
  /\ \A f \in InFlight(tx) : Awaited(f) => rx = <<>>
  /\ host.pos > 0 => \A f \in InFlight(rx) : f.job = host.job /\ f.pos = host.pos

\* What a push leaves in its target.
Pushed ==
  IF host.job.target = Live THEN PushBytes(host.job)
  ELSE [stamp |-> host.job.stamp, bytes |-> PushBytes(host.job)]

\* The transaction is the host's.
StageIsOurs ==
  stage.open => stage.target = host.job.target /\ stage.stamp = host.job.stamp

\* The chunks that the host has are those of m, in order.
ReadOf(m) ==
  /\ m \in seen /\ Len(host.got) = host.pos
  /\ \A k \in DOMAIN host.got : host.got[k] = m[k]

\* Between two steps of a job, the engine holds what the first ones left.
Progress ==
  host.result = "none" /\ host.pos > 0 =>
    /\ host.job.kind = "push" => StageIsOurs
    /\ host.job.kind = "pull" => ReadOf(snap)
    /\ host.job.kind = "describe" => (descOk => \A k \in DOMAIN host.got : host.got[k] = desc)

\* What the answer f to the present request says.
Tells(f) ==
  /\ host.job.kind = "push" =>
       StageIsOurs /\ (host.pos = LastStep(host.job) => Pushed \in seen)
  /\ host.job.kind = "pull" =>
       ReadOf(snap) /\ f.data = snap[host.pos + 1] /\ f.data # None
  /\ host.job.kind = "describe" =>
       (descOk => f.data = desc) /\ \A k \in DOMAIN host.got : host.got[k] = f.data

Responses == \A f \in InFlight(tx) : Awaited(f) /\ f.status = "Ok" => Tells(f)

\* What a job has come to.
JobOK ==
  /\ IsQueue(host.got)
  /\ host.job.kind \in {"push", "pull"} => seen # {}
  /\ host.result = "none" /\ host.pos = 0 => host.got = <<>>
  /\ AcceptedMeansApplied /\ BackupIsOneMoment /\ DescriptorIsWhole

JobInv == LinkInOrder /\ Progress /\ Responses /\ JobOK

SameJob ==
  /\ host'.job = host.job /\ host'.pos = host.pos /\ host'.got = host.got
  /\ host'.result = host.result

\* A job that stays where it is keeps what it has come to.
LEMMA JobStands ==
  ASSUME JobInv, SameJob, seen \subseteq seen'
  PROVE  JobOK'
<1>1. JobOK
  BY DEF JobInv
<1>2. IsQueue(host'.got) /\ (host'.job.kind \in {"push", "pull"} => seen' # {})
      /\ (host'.result = "none" /\ host'.pos = 0 => host'.got = <<>>)
  BY <1>1 DEF JobOK, SameJob
<1>3. AcceptedMeansApplied'
  BY <1>1 DEF JobOK, SameJob, AcceptedMeansApplied, Done, PushBytes
<1>4. BackupIsOneMoment'
  BY <1>1 DEF JobOK, SameJob, BackupIsOneMoment
<1>5. DescriptorIsWhole'
  BY <1>1 DEF JobOK, SameJob, DescriptorIsWhole
<1> QED BY <1>2, <1>3, <1>4, <1>5 DEF JobOK, IsQueue

\* A job that begins, or begins again.
LEMMA JobBegins ==
  ASSUME host'.pos = 0, host'.got = <<>>, host'.result = "none",
         host'.job.kind \in {"push", "pull"} => seen' # {}
  PROVE  JobOK' /\ Progress'
<1>1. IsQueue(host'.got) /\ DOMAIN host'.got = {}
  BY EmptyQueue
<1>2. AcceptedMeansApplied' /\ BackupIsOneMoment' /\ DescriptorIsWhole'
  BY <1>1 DEF AcceptedMeansApplied, Done, BackupIsOneMoment, DescriptorIsWhole
<1> QED BY <1>1, <1>2 DEF JobOK, Progress, IsQueue

-----------------------------------------------------------------------------
(* What a handler does for a job                                           *)

\* What an Ok to the request f has done, and the data it carries.
Grants(f, data) ==
  /\ f.cmd # "Damaged"
  /\ f.cmd = "BlobBegin" => stage'.target = f.job.target /\ stage'.stamp = f.job.stamp
  /\ f.cmd = "BlobCommit" =>
       /\ stage.open
       /\ stage.target = Live => live' = PushBytes(f.job)
       /\ stage.target # Live =>
            stored'[stage.target] = [stamp |-> stage.stamp, bytes |-> PushBytes(f.job)]
  /\ f.cmd = "GetLive" =>
       snap' # None /\ data = snap'[f.pos + 1] /\ (f.pos = 0 => snap' = live')
  /\ f.cmd = "GetDescriptor" => data = desc /\ (f.pos = 0 \/ descOk)

\* The device opens a transaction for a BLOB_BEGIN only, and begins to read, to
\* a host, at the first chunk only.
Holds(f) ==
  /\ stage'.open =>
       \/ stage.open /\ stage'.target = stage.target /\ stage'.stamp = stage.stamp
       \/ f.cmd = "BlobBegin" /\ stage'.target = f.job.target /\ stage'.stamp = f.job.stamp
  /\ snap' = snap \/ (f.cmd = "GetLive" /\ f.pos = 0)
  /\ descOk' = descOk \/ (f.cmd = "GetDescriptor" /\ f.pos = 0)
  /\ desc' = desc

\* The response to the request at the head, if the transport takes it.
Sent(status, data) ==
  tx' = tx \/ tx' = Append(tx, [seq |-> Head(rx).seq, status |-> status, data |-> data])

Handled(f) ==
  Holds(f) /\ \E status, data : Sent(status, data) /\ (status = "Ok" => Grants(f, data))

LEMMA AnswerSends == \A status : Answer(status) => Sent(status, None)
BY DEF Answer, Send, Sent

LEMMA BlobBeginHandled ==
  ASSUME ServeBlobBegin
  PROVE  Handled(Head(rx))
<1> DEFINE f == Head(rx)
<1>1. f.cmd = "BlobBegin" /\ UNCHANGED <<snap, desc, descOk>>
  BY DEF ServeBlobBegin, Serving
<1>2. CASE OpenStage(f.job) /\ Answer("Ok")
  <2>1. stage'.target = f.job.target /\ stage'.stamp = f.job.stamp
    BY <1>2 DEF OpenStage
  <2>2. Holds(f) /\ Grants(f, None)
    BY <1>1, <2>1 DEF Holds, Grants
  <2> QED BY <1>2, <2>2, AnswerSends DEF Handled
<1>3. CASE AbortStage /\ Answer("SchemaMismatch")
  <2>1. Holds(f)
    BY <1>1, <1>3 DEF Holds, AbortStage, Closed
  <2> QED BY <1>3, <2>1, AnswerSends DEF Handled
<1> QED BY <1>2, <1>3 DEF ServeBlobBegin

LEMMA BlobDataHandled ==
  ASSUME Inv, ServeBlobData
  PROVE  Handled(Head(rx))
<1>1. Head(rx).cmd = "BlobData" /\ UNCHANGED <<snap, desc, descOk>>
  BY DEF ServeBlobData, Serving
<1>2. \E status : Answer(status)
  BY DEF ServeBlobData
<1>3. stage'.open => stage.open /\ stage'.target = stage.target /\ stage'.stamp = stage.stamp
  <2>1. stage = [open |-> stage.open, target |-> stage.target, stamp |-> stage.stamp,
                 staging |-> stage.staging]
    BY DEF Inv, StageOwn
  <2>2. \/ UNCHANGED stage \/ AbortStage
        \/ \E new : stage' = [stage EXCEPT !.staging = new]
    BY DEF ServeBlobData
  <2> QED BY <2>1, <2>2 DEF AbortStage, Closed
<1>4. Holds(Head(rx)) /\ Grants(Head(rx), None)
  BY <1>1, <1>3 DEF Holds, Grants
<1> QED BY <1>2, <1>4, AnswerSends DEF Handled

\* A blob that every component accepts becomes the live state.
LEMMA AcceptedIsRestored ==
  ASSUME NEW old, NEW job, Accepted(PushBytes(job))
  PROVE  Restored(old, PushBytes(job)) = PushBytes(job)
BY DEF Accepted, Restored, PushBytes

LEMMA BlobCommitHandled ==
  ASSUME Inv, ServeBlobCommit
  PROVE  Handled(Head(rx))
<1> DEFINE job == Head(rx).job
<1>1. /\ Head(rx).cmd = "BlobCommit" /\ UNCHANGED <<snap, desc, descOk>> /\ ~stage'.open
  BY DEF ServeBlobCommit, Serving, AbortStage, Closed
<1>2. Holds(Head(rx))
  BY <1>1 DEF Holds
<1>3. CASE \E status : status # "Ok" /\ Answer(status)
  BY <1>2, <1>3, AnswerSends DEF Handled
<1>4. CASE /\ stage.open /\ stage.staging = PushBytes(job) /\ stage.target = Live
           /\ DeserializeLive(stage.staging)
           /\ Answer(IF Accepted(stage.staging) THEN "Ok" ELSE "BadArgs")
  <2>1. Accepted(stage.staging) => live' = PushBytes(job)
    BY <1>4, AcceptedIsRestored DEF DeserializeLive
  <2>2. Accepted(stage.staging) => Grants(Head(rx), None)
    BY <1>1, <1>4, <2>1 DEF Grants
  <2> QED BY <1>2, <1>4, <2>2, AnswerSends DEF Handled
<1>5. CASE /\ stage.open /\ stage.staging = PushBytes(job) /\ stage.target # Live
           /\ \E ok \in BOOLEAN :
                WriteSlotRaw(stage.target, stage.stamp, stage.staging, ok) /\ FlashAnswer(ok)
  <2>1. PICK ok \in BOOLEAN :
          WriteSlotRaw(stage.target, stage.stamp, stage.staging, ok) /\ FlashAnswer(ok)
    BY <1>5
  <2>2. stage.target \in Slots /\ stored \in [Slots -> Record \cup {None}]
    BY <1>5 DEF Inv, StageOwn, PresetsOwn, PresetsTypeOK
  <2>3. ok => stored'[stage.target] = [stamp |-> stage.stamp, bytes |-> PushBytes(job)]
    BY <1>5, <2>1, <2>2 DEF WriteSlotRaw
  <2>4. \E status : Sent(status, None) /\ (status = "Ok" => ok)
    <3>1. \A status, sent : Send(status, None, sent) => Sent(status, None)
      BY DEF Send, Sent
    <3>2. PICK sent : Send(FlashStatus(ok), None, sent)
      BY <2>1 DEF FlashAnswer
    <3>3. FlashStatus(ok) = "Ok" => ok
      BY DEF FlashStatus
    <3> QED BY <3>1, <3>2, <3>3
  <2>5. ok => Grants(Head(rx), None)
    BY <1>1, <1>5, <2>3 DEF Grants
  <2> QED BY <1>2, <2>4, <2>5 DEF Handled
<1>6. \/ \E status : status # "Ok" /\ Answer(status)
      \/ /\ stage.open /\ stage.staging = PushBytes(job) /\ stage.target = Live
         /\ DeserializeLive(stage.staging)
         /\ Answer(IF Accepted(stage.staging) THEN "Ok" ELSE "BadArgs")
      \/ /\ stage.open /\ stage.staging = PushBytes(job) /\ stage.target # Live
         /\ \E ok \in BOOLEAN :
              WriteSlotRaw(stage.target, stage.stamp, stage.staging, ok) /\ FlashAnswer(ok)
  BY DEF ServeBlobCommit, CommitReady, CrcMatches
<1> QED BY <1>3, <1>4, <1>5, <1>6

LEMMA ReadsHandled ==
  ASSUME Inv, ServeGetLive \/ ServeGetDescriptor
  PROVE  Handled(Head(rx))
<1> DEFINE f == Head(rx)
<1>1. CASE ServeGetLive
  <2>1. /\ f.cmd = "GetLive" /\ UNCHANGED <<presets, stage, desc, descOk>>
        /\ snap' = Snapshot(f.pos)
    BY <1>1 DEF ServeGetLive, Serving
  <2>2. Holds(f)
    BY <2>1 DEF Holds, Snapshot
  <2>3. f.pos = 0 => snap' = live'
    BY <2>1 DEF Snapshot, presets
  <2>4. CASE snap' = None
    <3>1. Answer("BadState")
      BY <1>1, <2>4 DEF ServeGetLive
    <3> QED BY <2>2, <3>1, AnswerSends DEF Handled
  <2>5. CASE snap' # None
    <3>1. Sent("Ok", snap'[f.pos + 1])
      BY <1>1, <2>5 DEF ServeGetLive, Send, Sent
    <3>2. Grants(f, snap'[f.pos + 1])
      BY <2>1, <2>3, <2>5 DEF Grants
    <3> QED BY <2>2, <3>1, <3>2 DEF Handled
  <2> QED BY <2>4, <2>5
<1>2. CASE ServeGetDescriptor
  <2>1. /\ f.cmd = "GetDescriptor" /\ UNCHANGED <<stage, snap, desc>>
        /\ descOk' = (f.pos = 0 \/ descOk)
    BY <1>2 DEF ServeGetDescriptor, Serving
  <2>2. CASE f.pos = 0 \/ descOk
    <3>1. descOk'
      BY <2>1, <2>2
    <3>2. Sent("Ok", desc)
      BY <1>2, <3>1 DEF ServeGetDescriptor, Send, Sent
    <3>3. Holds(f) /\ Grants(f, desc)
      BY <2>1, <2>2 DEF Holds, Grants
    <3> QED BY <3>2, <3>3 DEF Handled
  <2>3. CASE ~(f.pos = 0 \/ descOk)
    <3>1. Answer("BadState")
      BY <1>2, <2>1, <2>3 DEF ServeGetDescriptor
    <3>2. Holds(f)
      BY <2>1, <2>3 DEF Holds, Inv, ReadersOK
    <3> QED BY <3>1, <3>2, AnswerSends DEF Handled
  <2> QED BY <2>2, <2>3
<1> QED BY <1>1, <1>2

LEMMA OthersHandled ==
  ASSUME ServeSaveToSlot \/ ServeLoadFromSlot \/ ServeEraseSlot \/ ServeReboot \/ ServeDamaged
  PROVE  Handled(Head(rx))
<1>1. /\ Head(rx).cmd \in {"SaveToSlot", "LoadFromSlot", "EraseSlot", "Reboot", "Damaged"}
      /\ UNCHANGED <<stage, snap, desc, descOk>>
  BY DEF ServeSaveToSlot, ServeLoadFromSlot, ServeEraseSlot, ServeReboot, ServeDamaged, Serving,
         engine
<1>2. \E status : Sent(status, None) /\ (Head(rx).cmd = "Damaged" => status # "Ok")
  <2>1. CASE ServeDamaged
    BY <2>1, AnswerSends DEF ServeDamaged
  <2>2. CASE ServeReboot
    BY <2>2, AnswerSends DEF ServeReboot, Serving
  <2>3. CASE ServeLoadFromSlot
    BY <2>3, AnswerSends DEF ServeLoadFromSlot, Serving
  <2>4. CASE ServeSaveToSlot \/ ServeEraseSlot
    BY <2>4 DEF ServeSaveToSlot, ServeEraseSlot, Serving, FlashAnswer, Send, Sent
  <2> QED BY <2>1, <2>2, <2>3, <2>4
<1>3. Holds(Head(rx)) /\ (Head(rx).cmd # "Damaged" => Grants(Head(rx), None))
  BY <1>1 DEF Holds, Grants
<1> QED BY <1>2, <1>3 DEF Handled

\* Every handler, in one sentence.
LEMMA ServeHandled ==
  ASSUME Inv, Serve
  PROVE  /\ Handled(Head(rx)) /\ rx # <<>> /\ rx' = Tail(rx) /\ UNCHANGED host
         /\ seen \subseteq seen'
         /\ host.job.kind \in {"push", "pull"} => Subject(host.job)' \in seen'
<1>1. Handled(Head(rx))
  BY BlobBeginHandled, BlobDataHandled, BlobCommitHandled, ReadsHandled, OthersHandled DEF Serve
<1>2. rx # <<>> /\ rx' = Tail(rx)
  BY DEF Serve, ServeBlobBegin, ServeBlobData, ServeBlobCommit, ServeGetLive, ServeGetDescriptor,
         ServeSaveToSlot, ServeLoadFromSlot, ServeEraseSlot, ServeReboot, ServeDamaged, Serving
<1> QED BY <1>1, <1>2 DEF Serve, Watch

-----------------------------------------------------------------------------
(* The steps of the device                                                 *)

\* What the steps of a job ask for.
LEMMA CommandOfStep ==
  ASSUME NEW job, NEW pos \in 0 .. LastStep(job)
  PROVE  /\ job.kind = "push" =>
              /\ pos = 0 => Command(job, pos) = "BlobBegin"
              /\ pos > 0 => Command(job, pos) \in {"BlobData", "BlobCommit"}
              /\ pos = LastStep(job) => pos > 0 /\ Command(job, pos) = "BlobCommit"
         /\ job.kind = "pull" => Command(job, pos) = "GetLive"
         /\ job.kind = "describe" => Command(job, pos) = "GetDescriptor"
<1>1. NumManaged \in Nat \ {0}
  BY Constants
<1>2. CASE job.kind = "push"
  <2>1. LastStep(job) = NumManaged + 1 /\ 0 \notin Managed /\ NumManaged + 1 \notin Managed
    BY <1>1, <1>2 DEF LastStep, Managed
  <2>2. CASE pos = 0
    BY <1>1, <1>2, <2>1, <2>2 DEF Command
  <2>3. CASE pos \in Managed
    BY <1>1, <1>2, <2>1, <2>3 DEF Command, Managed
  <2>4. CASE pos = NumManaged + 1
    BY <1>1, <1>2, <2>1, <2>4 DEF Command
  <2> QED BY <1>1, <1>2, <2>1, <2>2, <2>3, <2>4 DEF Managed
<1> QED BY <1>2 DEF Command

\* A frame that is served leaves the others in their order.
LEMMA ServeKeepsOrder ==
  ASSUME Inv, LinkInOrder, Handled(Head(rx)), rx # <<>>, rx' = Tail(rx), UNCHANGED host
  PROVE  LinkInOrder'
<1>1. PICK S : rx \in Seq(S)
  BY DEF Inv, RequestsOwn, IsQueue
<1>2. /\ Len(rx) \in Nat \ {0} /\ DOMAIN rx = 1 .. Len(rx) /\ Head(rx) = rx[1]
      /\ Tail(rx) \in Seq(S) /\ Len(Tail(rx)) = Len(rx) - 1 /\ DOMAIN Tail(rx) = 1 .. Len(rx) - 1
      /\ \A k \in 1 .. Len(rx) - 1 : Tail(rx)[k] = rx[k + 1]
  BY <1>1
<1>3. InFlight(rx') \subseteq InFlight(rx)
  BY TailOfQueue DEF Inv, RequestsOwn
<1>4. \A k \in DOMAIN rx' : Awaited(rx'[k]) => k = Len(rx') /\ rx'[k].pos = host.pos
  BY <1>2 DEF LinkInOrder
<1>5. \A f \in InFlight(tx') : Awaited(f) => rx' = <<>>
  <2>1. PICK status, data : Sent(status, data)
    BY DEF Handled
  <2>2. \A f \in InFlight(tx) : ~Awaited(f)
    BY DEF LinkInOrder
  <2>3. CASE tx' = tx
    BY <2>2, <2>3
  <2>4. CASE tx' = Append(tx, [seq |-> Head(rx).seq, status |-> status, data |-> data])
    <3> DEFINE e == [seq |-> Head(rx).seq, status |-> status, data |-> data]
    <3>1. InFlight(tx') = InFlight(tx) \cup {e}
      BY <2>4, AppendToQueue DEF Inv, AnswersOwn
    <3>2. Awaited(e) => Awaited(rx[1])
      BY <1>2 DEF Awaited
    <3>3. Awaited(rx[1]) => Len(rx) = 1
      BY <1>2 DEF LinkInOrder
    <3>4. Len(rx) = 1 => rx' = <<>>
      BY <1>2
    <3> HIDE DEF e
    <3> QED BY <2>2, <3>1, <3>2, <3>3, <3>4
  <2> QED BY <2>1, <2>3, <2>4 DEF Sent
<1> QED BY <1>3, <1>4, <1>5 DEF LinkInOrder, Awaited

\* Where a host is past the first step of its job, the engine keeps what the job left.
LEMMA ServeKeepsProgress ==
  ASSUME Inv, JobInv, Handled(Head(rx)), rx # <<>>, UNCHANGED host, seen \subseteq seen'
  PROVE  Progress'
<1> DEFINE f == Head(rx)
<1>1. SUFFICES ASSUME host.result = "none", host.pos > 0
               PROVE  /\ host.job.kind = "push" => StageIsOurs'
                      /\ host.job.kind = "pull" => ReadOf(snap)'
                      /\ host.job.kind = "describe"
                           => (descOk' => \A k \in DOMAIN host.got : host.got[k] = desc')
  BY DEF Progress
<1>2. f \in InFlight(rx)
  BY TailOfQueue DEF Inv, RequestsOwn
<1>3. f.job = host.job /\ f.pos = host.pos /\ f.cmd \in {Command(host.job, host.pos), "Damaged"}
  BY <1>1, <1>2 DEF JobInv, LinkInOrder
<1>4. /\ host.job.kind = "push" => StageIsOurs
      /\ host.job.kind = "pull" => ReadOf(snap)
      /\ host.job.kind = "describe" => (descOk => \A k \in DOMAIN host.got : host.got[k] = desc)
  BY <1>1 DEF JobInv, Progress
<1>5. Holds(f) /\ f.pos # 0
  BY <1>1, <1>3 DEF Handled
<1>6. host.job.kind = "push" => f.cmd # "BlobBegin"
  BY <1>1, <1>3, CommandOfStep DEF Inv, HostOwn
<1>7. host.job.kind = "push" => StageIsOurs'
  BY <1>4, <1>5, <1>6 DEF Holds, StageIsOurs
<1>8. snap' = snap /\ descOk' = descOk /\ desc' = desc
  BY <1>5 DEF Holds
<1> QED BY <1>4, <1>7, <1>8 DEF ReadOf

\* An Ok to the request that the host waits for tells what it has asked.
LEMMA GrantTells ==
  ASSUME Inv, Inv', JobInv, rx # <<>>, Awaited(Head(rx)), UNCHANGED host, Holds(Head(rx)),
         seen \subseteq seen',
         host.job.kind \in {"push", "pull"} => Subject(host.job)' \in seen',
         NEW e, Grants(Head(rx), e.data)
  PROVE  Tells(e)'
<1> DEFINE f == Head(rx)
<1>1. f \in InFlight(rx) /\ 1 \in DOMAIN rx /\ f = rx[1]
  <2>1. PICK S : rx \in Seq(S)
    BY DEF Inv, RequestsOwn, IsQueue
  <2> QED BY <2>1, TailOfQueue DEF Inv, RequestsOwn
<1>2. f.job = host.job /\ f.pos = host.pos /\ host.result = "none"
  BY <1>1 DEF Inv, RequestsOwn, JobInv, LinkInOrder, Awaited
<1>3. f.cmd = Command(host.job, host.pos)
  BY <1>1, <1>2 DEF Grants, JobInv, LinkInOrder
<1>4. host.job \in Jobs \cup {Idle} /\ host.pos \in 0 .. LastStep(host.job) /\ LastStep(host.job) \in Nat
  BY StepsOfJob DEF Inv, HostOwn
<1>5. host.pos = 0 => host.got = <<>>
  BY <1>2 DEF JobInv, JobOK
<1>6. NumManaged \in Nat \ {0}
  BY Constants
<1>7. ASSUME host.job.kind = "push"
      PROVE  StageIsOurs' /\ (host.pos = LastStep(host.job) => Pushed' \in seen')
  <2>1. CASE host.pos = 0
    <3>1. f.cmd = "BlobBegin" /\ LastStep(host.job) # 0
      BY <1>3, <1>4, <1>7, <2>1, CommandOfStep
    <3> QED BY <1>2, <2>1, <3>1 DEF Grants, StageIsOurs
  <2>2. CASE host.pos > 0
    <3>1. StageIsOurs
      BY <1>2, <1>7, <2>2 DEF JobInv, Progress
    <3>2. f.cmd # "BlobBegin"
      BY <1>3, <1>4, <1>7, <2>2, CommandOfStep
    <3>3. StageIsOurs'
      BY <3>1, <3>2 DEF Holds, StageIsOurs
    <3>4. ASSUME host.pos = LastStep(host.job) PROVE Pushed' \in seen'
      <4>1. f.cmd = "BlobCommit"
        BY <1>3, <1>4, <1>7, <3>4, CommandOfStep
      <4>2. /\ stage.open /\ stage.target = host.job.target /\ stage.stamp = host.job.stamp
            /\ stage.target = Live => live' = PushBytes(host.job)
            /\ stage.target # Live =>
                 stored'[stage.target] = [stamp |-> stage.stamp, bytes |-> PushBytes(host.job)]
        BY <1>2, <3>1, <4>1 DEF Grants, StageIsOurs
      <4>3. Subject(host.job)' \in seen'
        BY <1>7
      <4>4. Subject(host.job)' = IF host.job.target # Live THEN stored'[host.job.target] ELSE live'
        BY <1>7 DEF Subject
      <4>5. Pushed' = IF host.job.target = Live THEN PushBytes(host.job)
                      ELSE [stamp |-> host.job.stamp, bytes |-> PushBytes(host.job)]
        BY DEF Pushed, PushBytes
      <4>6. Subject(host.job)' = Pushed'
        BY <4>2, <4>4, <4>5
      <4> QED BY <4>3, <4>6
    <3> QED BY <3>3, <3>4
  <2> QED BY <1>4, <2>1, <2>2
<1>8. ASSUME host.job.kind = "pull"
      PROVE  ReadOf(snap)' /\ e.data = snap'[host.pos + 1] /\ e.data # None
  <2>1. f.cmd = "GetLive"
    BY <1>3, <1>8 DEF Command
  <2>2. snap' # None /\ e.data = snap'[host.pos + 1] /\ (host.pos = 0 => snap' = live')
    BY <1>2, <2>1 DEF Grants
  <2>3. e.data # None
    <3>1. host.pos + 1 \in Managed
      BY <1>4, <1>6, <1>8 DEF LastStep, Managed
    <3>2. snap' \in Bytes
      BY <2>2 DEF Inv, ReadersOK
    <3>3. None \notin Piece
      BY HostLinkAssumption
    <3> QED BY <2>2, <3>1, <3>2, <3>3 DEF Bytes
  <2>4. CASE host.pos = 0
    <3>1. snap' \in seen'
      <4>1. Subject(host.job)' = live'
        BY <1>8 DEF Subject
      <4> QED BY <1>8, <2>2, <2>4, <4>1
    <3>2. host.got = <<>> /\ Len(host.got) = 0 /\ DOMAIN host.got = {}
      BY <1>5, <2>4
    <3> QED BY <2>2, <2>3, <2>4, <3>1, <3>2 DEF ReadOf
  <2>5. CASE host.pos > 0
    <3>1. ReadOf(snap)
      BY <1>2, <1>8, <2>5 DEF JobInv, Progress
    <3>2. snap' = snap
      BY <1>2, <2>5 DEF Holds
    <3> QED BY <2>2, <2>3, <3>1, <3>2 DEF ReadOf
  <2> QED BY <1>4, <2>4, <2>5
<1>9. ASSUME host.job.kind = "describe"
      PROVE  (descOk' => e.data = desc') /\ \A k \in DOMAIN host.got : host.got[k] = e.data
  <2>1. f.cmd = "GetDescriptor"
    BY <1>3, <1>9 DEF Command
  <2>2. e.data = desc /\ (host.pos = 0 \/ descOk) /\ desc' = desc
    BY <1>2, <2>1 DEF Grants, Holds
  <2>3. CASE host.pos = 0
    BY <1>5, <2>2, <2>3
  <2>4. CASE host.pos > 0
    BY <1>2, <1>9, <2>2, <2>4 DEF JobInv, Progress
  <2> QED BY <1>4, <2>2, <2>3, <2>4
<1> QED BY <1>7, <1>8, <1>9 DEF Tells

LEMMA ServeKeepsJobInv ==
  ASSUME Inv, Inv', JobInv, Serve
  PROVE  JobInv'
<1>1. /\ Handled(Head(rx)) /\ rx # <<>> /\ rx' = Tail(rx) /\ UNCHANGED host
      /\ seen \subseteq seen'
      /\ host.job.kind \in {"push", "pull"} => Subject(host.job)' \in seen'
  BY ServeHandled
<1>2. LinkInOrder'
  BY <1>1, ServeKeepsOrder DEF JobInv
<1>3. Progress'
  BY <1>1, ServeKeepsProgress
<1>4. JobOK'
  BY <1>1, JobStands DEF SameJob
<1>5. Responses'
  <2>1. SUFFICES ASSUME NEW g \in InFlight(tx'), Awaited(g), g.status = "Ok" PROVE Tells(g)'
    BY <1>1 DEF Responses, Awaited
  <2>2. g \notin InFlight(tx)
    BY <1>1, <2>1 DEF JobInv, LinkInOrder
  <2>3. PICK status, data : Sent(status, data) /\ (status = "Ok" => Grants(Head(rx), data))
    BY <1>1 DEF Handled
  <2> DEFINE e == [seq |-> Head(rx).seq, status |-> status, data |-> data]
  <2>4. g = e
    <3>1. tx' # tx
      BY <2>1, <2>2
    <3>2. tx' = Append(tx, e)
      BY <2>3, <3>1 DEF Sent
    <3>3. InFlight(tx') = InFlight(tx) \cup {e}
      BY <3>2, AppendToQueue DEF Inv, AnswersOwn
    <3> HIDE DEF e
    <3> QED BY <2>1, <2>2, <3>3
  <2>5. Awaited(Head(rx)) /\ status = "Ok" /\ g.data = data
    BY <2>1, <2>4 DEF Awaited
  <2> QED BY <1>1, <2>3, <2>5, GrantTells DEF Handled
<1> QED BY <1>2, <1>3, <1>4, <1>5 DEF JobInv

-----------------------------------------------------------------------------
(* The steps of the others, and the job                                    *)

\* A step that leaves the link and the host.
LEMMA QueuesStand ==
  ASSUME JobInv, UNCHANGED <<rx, tx, host>>
  PROVE  LinkInOrder'
BY DEF JobInv, LinkInOrder, Awaited, InFlight

\* A host that waits for nothing, and is at the first step of its job.
LEMMA LinkRests ==
  ASSUME JobInv, UNCHANGED <<rx, tx>>, ~host'.waiting, host'.pos = 0
  PROVE  LinkInOrder' /\ Responses'
BY DEF JobInv, LinkInOrder, Responses, Awaited, InFlight

LEMMA TimersKeepJobInv ==
  ASSUME JobInv, Inv, StageTimesOut \/ SetDescriptor
  PROVE  JobInv'
<1>1. UNCHANGED <<presets, snap, rx, tx, host, seen>>
  BY DEF StageTimesOut, SetDescriptor
<1>2. /\ stage'.open => stage' = stage
      /\ descOk' => UNCHANGED <<desc, descOk>>
  BY DEF StageTimesOut, SetDescriptor, AbortStage, Closed, StopsReaders
<1>3. Progress'
  BY <1>1, <1>2 DEF JobInv, Progress, StageIsOurs, ReadOf
<1>4. \A f : Tells(f) => Tells(f)'
  BY <1>1, <1>2 DEF Tells, StageIsOurs, ReadOf, Pushed, PushBytes
<1>5. Responses'
  BY <1>1, <1>4 DEF JobInv, Responses, Awaited, InFlight
<1> QED BY <1>1, <1>3, <1>5, QueuesStand, JobStands DEF JobInv, SameJob

\* A restart leaves nothing on the link, and no job.
LEMMA StartKeepsJobInv ==
  ASSUME Inv, JobInv, RebootFires \/ PowerLoss
  PROVE  JobInv'
<1>1. rx' = <<>> /\ tx' = <<>> /\ host' = Free
  BY DEF RebootFires, PowerLoss, StartFirmware
<1>2. /\ host'.job = Idle /\ host'.pos = 0 /\ host'.got = <<>> /\ host'.result = "none"
      /\ ~host'.waiting
  BY <1>1 DEF Free, Inv, HostOwn, HostShape
<1>3. InFlight(rx') = {} /\ InFlight(tx') = {} /\ DOMAIN rx' = {}
  BY <1>1, EmptyQueue
<1>4. JobOK' /\ Progress'
  BY <1>2, JobBegins DEF Idle
<1> QED BY <1>2, <1>3, <1>4 DEF JobInv, LinkInOrder, Responses

LEMMA PanelKeepsJobInv ==
  ASSUME Inv, JobInv, Panel
  PROVE  JobInv'
<1>1. UNCHANGED <<engine, rx, tx, host>> /\ seen \subseteq seen'
  BY DEF Panel, Watch
<1>2. UNCHANGED <<stage, snap, desc, descOk>>
  BY <1>1 DEF engine
<1>3. Progress'
  BY <1>1, <1>2 DEF JobInv, Progress, StageIsOurs, ReadOf
<1>4. \A f : Tells(f) => Tells(f)'
  BY <1>1, <1>2 DEF Tells, StageIsOurs, ReadOf, Pushed, PushBytes
<1>5. Responses'
  BY <1>1, <1>4 DEF JobInv, Responses, Awaited, InFlight
<1> QED BY <1>1, <1>3, <1>5, QueuesStand, JobStands DEF JobInv, SameJob

LEMMA HostBeginsKeepsJobInv ==
  ASSUME Inv, JobInv, HostBegins
  PROVE  JobInv'
<1>1. PICK job \in Jobs :
        /\ host' = [Free EXCEPT !.job = job]
        /\ seen' = IF job.kind \in {"push", "pull"} THEN {Subject(job)} ELSE {}
  BY DEF HostBegins
<1>2. UNCHANGED <<rx, tx>>
  BY DEF HostBegins
<1>3. /\ host'.job = job /\ host'.pos = 0 /\ host'.got = <<>> /\ host'.result = "none"
      /\ ~host'.waiting
  BY <1>1 DEF Free, Inv, HostOwn, HostShape
<1>4. JobOK' /\ Progress'
  BY <1>1, <1>3, JobBegins
<1> QED BY <1>2, <1>3, <1>4, LinkRests DEF JobInv

LEMMA HostSendsKeepsJobInv ==
  ASSUME Inv, JobInv, HostSends
  PROVE  JobInv'
<1> DEFINE f(seq) == [seq |-> seq, cmd |-> Command(host.job, host.pos),
                      job |-> host.job, pos |-> host.pos]
<1>1. PICK seq :
        /\ Unused(seq) /\ rx' = Append(rx, f(seq))
        /\ host' = [host EXCEPT !.seq = seq, !.waiting = TRUE]
  BY DEF HostSends
<1>2. UNCHANGED <<presets, engine, tx, seen>> /\ host.result = "none"
  BY DEF HostSends, Busy
<1>3. UNCHANGED <<stage, snap, desc, descOk>>
  BY <1>2 DEF engine
<1>4. SameJob /\ host'.seq = seq /\ host'.waiting
  BY <1>1 DEF SameJob, Inv, HostOwn, HostShape
<1> DEFINE e == f(seq)
<1>5. e.seq = seq /\ e.cmd = Command(e.job, e.pos) /\ e.job = host.job /\ e.pos = host.pos
  OBVIOUS
<1>6. PICK S : rx \in Seq(S)
  BY DEF Inv, RequestsOwn, IsQueue
<1> HIDE DEF e
<1>7. rx' = Append(rx, e)
  BY <1>1 DEF e
<1> HIDE DEF f
<1>8. /\ DOMAIN rx = 1 .. Len(rx) /\ DOMAIN rx' = 1 .. Len(rx) + 1 /\ Len(rx') = Len(rx) + 1
      /\ \A k \in 1 .. Len(rx) : rx'[k] = rx[k]
      /\ rx'[Len(rx) + 1] = e /\ Len(rx) \in Nat
  BY <1>6, <1>7
<1>9. InFlight(rx') = InFlight(rx) \cup {e}
  BY <1>7, AppendToQueue DEF Inv, RequestsOwn
<1>10. \A k \in DOMAIN rx' : rx'[k].seq = seq => k = Len(rx') /\ rx'[k].pos = host.pos
  BY <1>1, <1>5, <1>8 DEF Unused
<1>11. \A g \in InFlight(tx) : g.seq # seq
  BY <1>1 DEF Unused, InFlight
<1>12. LinkInOrder'
  <2>1. \A g \in InFlight(rx') : g.cmd \in {Command(g.job, g.pos), "Damaged"}
    BY <1>5, <1>9 DEF JobInv, LinkInOrder
  <2>2. host.pos > 0 => \A g \in InFlight(rx') : g.job = host.job /\ g.pos = host.pos
    BY <1>5, <1>9 DEF JobInv, LinkInOrder
  <2>3. host'.result = "none"
    BY <1>2, <1>4 DEF SameJob
  <2> QED BY <1>2, <1>4, <1>10, <1>11, <2>1, <2>2, <2>3 DEF LinkInOrder, Awaited, SameJob
<1>13. Progress'
  BY <1>2, <1>3, <1>4 DEF JobInv, Progress, StageIsOurs, ReadOf, SameJob
<1>14. Responses'
  BY <1>2, <1>4, <1>11 DEF Responses, Awaited
<1> QED BY <1>2, <1>4, <1>12, <1>13, <1>14, JobStands DEF JobInv

\* A chunk more.
LEMMA GotGrows ==
  ASSUME IsQueue(host.got), NEW r, r.data # None
  PROVE  LET got == Kept(r)
         IN  /\ IsQueue(got) /\ Len(got) = Len(host.got) + 1 /\ Len(host.got) \in Nat
             /\ DOMAIN got = DOMAIN host.got \cup {Len(host.got) + 1}
             /\ \A k \in DOMAIN host.got : got[k] = host.got[k]
             /\ got[Len(host.got) + 1] = r.data
<1>1. PICK S : host.got \in Seq(S)
  BY DEF IsQueue
<1>2. Kept(r) = Append(host.got, r.data)
  BY DEF Kept
<1>3. IsQueue(Kept(r))
  BY <1>2, AppendToQueue
<1>4. host.got \in Seq(S \cup {r.data})
  BY <1>1
<1> QED BY <1>1, <1>2, <1>3, <1>4

LEMMA GotKept ==
  ASSUME IsQueue(host.got), NEW r
  PROVE  /\ IsQueue(Kept(r))
         /\ \A k \in DOMAIN Kept(r) : Kept(r)[k] = r.data \/ (k \in DOMAIN host.got /\ Kept(r)[k] = host.got[k])
<1>1. CASE r.data = None
  BY <1>1 DEF Kept
<1>2. CASE r.data # None
  BY <1>2, GotGrows
<1> QED BY <1>1, <1>2

\* A host that goes on with its job on an Ok that tells what it has asked.
LEMMA OkKeepsJob ==
  ASSUME Inv, JobInv, UNCHANGED <<presets, engine, seen>>,
         NEW r \in InFlight(tx), Awaited(r), r.status = "Ok",
         host'.job = host.job, host'.got = Kept(r),
         \/ host'.pos = host.pos + 1 /\ host'.result = "none"
         \/ host.pos = LastStep(host.job) /\ host'.result = "ok"
  PROVE  JobOK' /\ Progress'
<1>1. Tells(r) /\ IsQueue(host.got) /\ (host.job.kind \in {"push", "pull"} => seen # {})
  BY DEF JobInv, Responses, JobOK
<1>2. UNCHANGED <<stage, snap, desc, descOk>> /\ host.pos \in Nat
  <2>1. host.pos \in Nat
    BY StepsOfJob DEF Inv, HostOwn
  <2> QED BY <2>1 DEF engine
<1>3. AcceptedMeansApplied'
  <2>1. SUFFICES ASSUME host.job.kind = "push", host'.result = "ok" PROVE Pushed \in seen
    BY DEF AcceptedMeansApplied, Done, Pushed, PushBytes
  <2> QED BY <1>1, <2>1 DEF Tells
<1>4. host.job.kind = "describe" => \A k \in DOMAIN host'.got : host'.got[k] = r.data
  BY <1>1, GotKept DEF Tells
<1>5. ASSUME host.job.kind = "pull"
      PROVE  /\ snap \in seen /\ Len(host'.got) = host.pos + 1
             /\ \A k \in DOMAIN host'.got : host'.got[k] = snap[k]
  BY <1>1, <1>2, <1>5, GotGrows DEF Tells, ReadOf
<1>6. IsQueue(host'.got)
  BY <1>1, GotKept
<1>7. JobOK'
  <2>1. BackupIsOneMoment'
    BY <1>5 DEF BackupIsOneMoment
  <2>2. DescriptorIsWhole'
    BY <1>4 DEF DescriptorIsWhole
  <2> QED BY <1>1, <1>2, <1>3, <1>6, <2>1, <2>2 DEF JobOK, IsQueue
<1>8. Progress'
  <2>1. SUFFICES ASSUME host'.result = "none", host'.pos = host.pos + 1
                 PROVE  /\ host.job.kind = "push" => StageIsOurs'
                        /\ host.job.kind = "pull" => ReadOf(snap)'
                        /\ host.job.kind = "describe"
                             => (descOk => \A k \in DOMAIN host'.got : host'.got[k] = desc)
    BY <1>2 DEF Progress
  <2> QED BY <1>1, <1>2, <1>4, <1>5, <2>1 DEF Tells, StageIsOurs, ReadOf
<1> QED BY <1>7, <1>8

LEMMA HostReceivesKeepsJobInv ==
  ASSUME Inv, JobInv, HostReceives
  PROVE  JobInv'
<1> DEFINE r == Head(tx)
<1>1. UNCHANGED <<presets, engine, rx, seen>> /\ tx # <<>> /\ tx' = Tail(tx)
  BY DEF HostReceives
<1>2. UNCHANGED <<stage, snap, desc, descOk>>
  BY <1>1 DEF engine
<1>3. InFlight(tx') \subseteq InFlight(tx) /\ r \in InFlight(tx)
  BY <1>1, TailOfQueue DEF Inv, AnswersOwn
<1>4. CASE host' = host
  <2>1. LinkInOrder'
    BY <1>1, <1>3, <1>4 DEF JobInv, LinkInOrder, Awaited
  <2>2. Progress'
    BY <1>1, <1>2, <1>4 DEF JobInv, Progress, StageIsOurs, ReadOf
  <2>3. \A f : Tells(f) => Tells(f)'
    BY <1>1, <1>2, <1>4 DEF Tells, StageIsOurs, ReadOf, Pushed, PushBytes
  <2>4. Responses'
    BY <1>3, <1>4, <2>3 DEF JobInv, Responses, Awaited
  <2> QED BY <1>1, <1>4, <2>1, <2>2, <2>4, JobStands DEF JobInv, SameJob
<1>5. CASE Busy /\ Awaited(r) /\ host' = After(r)
  <2>1. host.result = "none" /\ rx = <<>>
    BY <1>3, <1>5 DEF Busy, JobInv, LinkInOrder
  <2>2. ASSUME ~host'.waiting, JobOK', Progress' PROVE JobInv'
    <3>1. DOMAIN rx' = {} /\ InFlight(rx') = {}
      BY <1>1, <2>1, EmptyQueue
    <3> QED BY <2>2, <3>1 DEF JobInv, LinkInOrder, Responses, Awaited
  <2>3. \/ /\ r.status = "Ok"
           /\ host' = [host EXCEPT !.got = Kept(r), !.pos = @ + 1,
                                   !.waiting = FALSE, !.retried = FALSE]
        \/ /\ r.status = "Ok" /\ host.pos = LastStep(host.job)
           /\ host' = [host EXCEPT !.got = Kept(r), !.waiting = FALSE, !.result = "ok"]
        \/ host' = FromTheStart
        \/ host' = Free
    BY <1>5 DEF After
  <2>4. CASE /\ r.status = "Ok"
             /\ \/ host' = [host EXCEPT !.got = Kept(r), !.pos = @ + 1,
                                        !.waiting = FALSE, !.retried = FALSE]
                \/ /\ host.pos = LastStep(host.job)
                   /\ host' = [host EXCEPT !.got = Kept(r), !.waiting = FALSE, !.result = "ok"]
    <3>1. /\ host'.job = host.job /\ host'.got = Kept(r) /\ ~host'.waiting
          /\ \/ host'.pos = host.pos + 1 /\ host'.result = "none"
             \/ host.pos = LastStep(host.job) /\ host'.result = "ok"
      BY <2>1, <2>4 DEF Inv, HostOwn, HostShape
    <3> QED BY <1>1, <1>3, <1>5, <2>2, <2>4, <3>1, OkKeepsJob
  <2>5. CASE host' = FromTheStart
    <3>1. /\ host'.pos = 0 /\ host'.got = <<>> /\ host'.result = "none" /\ ~host'.waiting
          /\ host'.job = host.job
      BY <2>1, <2>5 DEF FromTheStart, Inv, HostOwn, HostShape
    <3> QED BY <1>1, <2>2, <3>1, JobBegins DEF JobInv, JobOK
  <2>6. CASE host' = Free
    <3>1. /\ host'.pos = 0 /\ host'.got = <<>> /\ host'.result = "none" /\ ~host'.waiting
          /\ host'.job.kind = "idle"
      BY <2>6 DEF Free, Idle, Inv, HostOwn, HostShape
    <3> QED BY <2>2, <3>1, JobBegins
  <2> QED BY <2>3, <2>4, <2>5, <2>6
<1> QED BY <1>4, <1>5 DEF HostReceives, Awaited

LEMMA HostGivesUpKeepsJobInv ==
  ASSUME Inv, JobInv, HostTimesOut \/ HostCrashes
  PROVE  JobInv'
<1>1. UNCHANGED <<presets, engine, rx, tx>> /\ host.result = "none"
  BY DEF HostTimesOut, HostCrashes, Busy
<1>2. UNCHANGED <<stage, snap, desc, descOk>>
  BY <1>1 DEF engine
<1>3. CASE host' = FromTheStart /\ seen' = seen
  <2>1. /\ host'.pos = 0 /\ host'.got = <<>> /\ host'.result = "none" /\ ~host'.waiting
        /\ host'.job = host.job
    BY <1>1, <1>3 DEF FromTheStart, Inv, HostOwn, HostShape
  <2>2. JobOK' /\ Progress'
    BY <1>3, <2>1, JobBegins DEF JobInv, JobOK
  <2> QED BY <1>1, <2>1, <2>2, LinkRests DEF JobInv
<1>4. CASE host' = Free
  <2>1. /\ host'.pos = 0 /\ host'.got = <<>> /\ host'.result = "none" /\ ~host'.waiting
        /\ host'.job.kind = "idle"
    BY <1>4 DEF Free, Idle, Inv, HostOwn, HostShape
  <2>2. JobOK' /\ Progress'
    BY <2>1, JobBegins
  <2> QED BY <1>1, <2>1, <2>2, LinkRests DEF JobInv
<1>5. CASE host' = [host EXCEPT !.waiting = FALSE, !.retried = TRUE] /\ seen' = seen
  <2>1. SameJob /\ ~host'.waiting
    BY <1>5 DEF SameJob, Inv, HostOwn, HostShape
  <2>2. LinkInOrder'
    BY <1>1, <2>1 DEF JobInv, LinkInOrder, Awaited, SameJob, InFlight
  <2>3. Progress'
    BY <1>1, <1>2, <1>5, <2>1 DEF JobInv, Progress, StageIsOurs, ReadOf, SameJob
  <2>4. Responses'
    BY <2>1 DEF Responses, Awaited
  <2> QED BY <1>5, <2>1, <2>2, <2>3, <2>4, JobStands DEF JobInv
<1> QED BY <1>3, <1>4, <1>5 DEF HostTimesOut, HostCrashes

LEMMA LinkDamagesKeepsJobInv ==
  ASSUME Inv, JobInv, LinkDamages
  PROVE  JobInv'
<1>1. UNCHANGED <<presets, engine, tx, host, seen>>
  BY DEF LinkDamages
<1>2. UNCHANGED <<stage, snap, desc, descOk>>
  BY <1>1 DEF engine
<1>3. PICK n \in DOMAIN rx : rx' = [rx EXCEPT ![n].cmd = "Damaged"]
  BY DEF LinkDamages
<1> DEFINE e == [rx[n] EXCEPT !.cmd = "Damaged"]
<1>4. rx' = [rx EXCEPT ![n] = e]
  BY <1>3
<1>5. rx[n] \in InFlight(rx) /\ Fits(rx[n])
  BY DEF InFlight, Inv, RequestsOwn
<1>6. e.cmd = "Damaged" /\ e.seq = rx[n].seq /\ e.job = rx[n].job /\ e.pos = rx[n].pos
  BY <1>5 DEF Fits
<1> HIDE DEF e
<1>7. PICK S : rx \in Seq(S)
  BY DEF Inv, RequestsOwn, IsQueue
<1>8. /\ DOMAIN rx' = DOMAIN rx /\ Len(rx') = Len(rx) /\ rx'[n] = e
      /\ \A k \in DOMAIN rx \ {n} : rx'[k] = rx[k]
  BY <1>4, <1>7
<1>9. LinkInOrder'
  <2>1. \A f \in InFlight(rx') : f.cmd \in {Command(f.job, f.pos), "Damaged"}
    BY <1>6, <1>8 DEF JobInv, LinkInOrder, InFlight
  <2>2. \A k \in DOMAIN rx' : Awaited(rx'[k]) => k = Len(rx') /\ rx'[k].pos = host.pos
    BY <1>6, <1>8 DEF JobInv, LinkInOrder, Awaited
  <2>3. \A f \in InFlight(tx) : Awaited(f) => rx' = <<>>
    <3>1. rx # <<>>
      BY <1>7
    <3> QED BY <3>1 DEF JobInv, LinkInOrder
  <2>4. host.pos > 0 => \A f \in InFlight(rx') : f.job = host.job /\ f.pos = host.pos
    BY <1>5, <1>6, <1>8 DEF JobInv, LinkInOrder, InFlight
  <2>5. host.waiting => host.result = "none"
    BY DEF JobInv, LinkInOrder
  <2> QED BY <1>1, <2>1, <2>2, <2>3, <2>4, <2>5 DEF LinkInOrder, Awaited
<1>10. Progress'
  BY <1>1, <1>2 DEF JobInv, Progress, StageIsOurs, ReadOf
<1>11. \A f : Tells(f) => Tells(f)'
  BY <1>1, <1>2 DEF Tells, StageIsOurs, ReadOf, Pushed, PushBytes
<1>12. Responses'
  BY <1>1, <1>11 DEF JobInv, Responses, Awaited
<1> QED BY <1>1, <1>9, <1>10, <1>12, JobStands DEF JobInv, SameJob


-----------------------------------------------------------------------------
(* The theorems about jobs                                                 *)

\* No job, and nothing on the link.
LEMMA InitEstablishesJobInv == Init => JobInv
<1> SUFFICES ASSUME Init PROVE JobInv
  OBVIOUS
<1>1. /\ host.job = Idle /\ host.pos = 0 /\ host.got = <<>> /\ host.result = "none"
      /\ ~host.waiting /\ rx = <<>> /\ tx = <<>>
  BY DEF Init
<1>2. InFlight(rx) = {} /\ InFlight(tx) = {} /\ DOMAIN rx = {} /\ IsQueue(host.got)
  BY <1>1, EmptyQueue
<1>3. host.job.kind = "idle"
  BY <1>1 DEF Idle
<1>4. LinkInOrder /\ Progress /\ Responses
  BY <1>1, <1>2 DEF LinkInOrder, Progress, Responses
<1>5. AcceptedMeansApplied /\ BackupIsOneMoment /\ DescriptorIsWhole
  BY <1>3 DEF AcceptedMeansApplied, Done, BackupIsOneMoment, DescriptorIsWhole
<1> QED BY <1>1, <1>2, <1>3, <1>4, <1>5 DEF JobInv, JobOK

\* Every step, of whichever party, keeps the job in order.
LEMMA StepKeepsJobInv ==
  ASSUME Inv, JobInv, [Next]_vars
  PROVE  JobInv'
<1>1. Inv'
  BY StepKeepsInv
<1>2. CASE Serve
  BY <1>1, <1>2, ServeKeepsJobInv
<1>3. CASE \/ StageTimesOut \/ SetDescriptor \/ RebootFires \/ PowerLoss
           \/ HostSends \/ HostReceives \/ HostTimesOut \/ HostCrashes
           \/ LinkDamages \/ Panel \/ HostBegins
  BY <1>1, <1>3, TimersKeepJobInv, StartKeepsJobInv, HostSendsKeepsJobInv,
     HostReceivesKeepsJobInv, HostGivesUpKeepsJobInv, LinkDamagesKeepsJobInv,
     PanelKeepsJobInv, HostBeginsKeepsJobInv
<1>4. CASE UNCHANGED vars
  <2>1. UNCHANGED <<stage, snap, desc, descOk, rx, tx, host, seen>>
    BY <1>4 DEF vars, engine
  <2>2. Progress'
    BY <2>1 DEF JobInv, Progress, StageIsOurs, ReadOf
  <2>3. \A f : Tells(f) => Tells(f)'
    BY <2>1 DEF Tells, StageIsOurs, ReadOf, Pushed, PushBytes
  <2>4. Responses'
    BY <2>1, <2>3 DEF JobInv, Responses, Awaited, InFlight
  <2> QED BY <2>1, <2>2, <2>4, QueuesStand, JobStands DEF JobInv, SameJob
<1> QED BY <1>2, <1>3, <1>4 DEF Next

\* The device and the link are in order, and so is the job of the host.
LEMMA JobInvHolds == Spec => []JobInv
<1>1. Init => JobInv
  BY InitEstablishesJobInv
<1>2. Inv /\ JobInv /\ [Next]_vars => JobInv'
  BY StepKeepsJobInv
<1> QED BY <1>1, <1>2, InvHolds, PTL DEF Spec

\* A push that its host saw accepted took effect whole, in the slot or the
\* live state it was meant for (OnBlobCommit), whatever frames were lost,
\* damaged or answered late, and however often the transaction was aborted,
\* timed out or begun again before it.
THEOREM AcceptedPushIsApplied == Spec => []AcceptedMeansApplied
<1>1. JobInv => AcceptedMeansApplied
  BY DEF JobInv, JobOK
<1> QED BY <1>1, JobInvHolds, PTL

\* The chunks of a GET_LIVE read are those of one moment of the live state
\* since it began: they come from the snapshot that its own first request
\* took (OnGetLive), and no other request replaces it in between.
THEOREM BackupIsOfOneMoment == Spec => []BackupIsOneMoment
<1>1. JobInv => BackupIsOneMoment
  BY DEF JobInv, JobOK
<1> QED BY <1>1, JobInvHolds, PTL

\* The chunks of a descriptor are of one version, although SetDescriptor may
\* replace it between any two of them: readers are sent back to the start.
THEOREM DescriptorIsOfOneVersion == Spec => []DescriptorIsWhole
<1>1. JobInv => DescriptorIsWhole
  BY DEF JobInv, JobOK
<1> QED BY <1>1, JobInvHolds, PTL
=============================================================================
