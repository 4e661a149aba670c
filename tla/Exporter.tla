------------------------------ MODULE Exporter ------------------------------
(***************************************************************************)
(* The collector's exporter thread (src/src/collector/collector_export.c): *)
(* the mediator registry (export_dest_t list), the intercept state table   *)
(* (LIID -> CIN -> cin_seqno_t), the encoding loop of run_encoding_job and *)
(* the forwarding path forward_message / forward_fd / export buffer.       *)
(*                                                                         *)
(* The thread is single-threaded: every action below is a step of that one *)
(* thread.  The message the thread reads is chosen by the environment (the *)
(* sync thread and the capture workers push onto a ZMQ PULL socket, so any *)
(* interleaving of their messages can arrive).  The network is the other   *)
(* environment: each connect, send and buffered transmit has a             *)
(* nondeterministic outcome; outcomes other than complete success are      *)
(* "faults" and are bounded by MaxFaults.                                  *)
(*                                                                         *)
(* Records are abstracted to identifiers (their position in the history    *)
(* `records`); bytes are abstracted to chunks of one record: a chunk is    *)
(* [id, first, last], first/last saying whether it carries the record's    *)
(* first and last byte.  The mediator side of each connection reassembles  *)
(* chunks into records (`Receive`).                                        *)
(***************************************************************************)
EXTENDS Naturals, Sequences, SequencesExt, FiniteSets

CONSTANTS
  Mediators,     \* mediator ids (uint32 mediatorid)
  Addrs,         \* mediator locations (ipstr:portstr)
  LIIDs,         \* intercept identifiers
  CINs,          \* communication identity numbers
  NoAddr,        \* details.ipstr == NULL: an unannounced mediator
  Absent,        \* no export_dest_t for this mediator id in exp->dests
  NoConn,        \* dest->fd == -1
  None,          \* a connection with no partially received record
  Garbled,       \* what the mediator makes of a record tail without its head
  NoIntercept,   \* no exporter_intercept_state_t for this LIID
  NoCounter,     \* no cin_seqno_t for this CIN
  MaxMsgs,       \* bound: messages the exporter reads
  MaxIriRecs,    \* bound: records one IPIRI job encodes
  MaxFaults,     \* bound: network / encoder faults
  FlagSupport    \* the #if 0 reader's FLAG_MEDIATORS / DROP_ALL_MEDIATORS

ASSUME /\ MaxMsgs \in Nat \ {0}
       /\ MaxIriRecs \in Nat \ {0}
       /\ MaxFaults \in Nat
       /\ FlagSupport \in BOOLEAN

MaxRecords == MaxMsgs * MaxIriRecs
Ids == 1 .. MaxRecords

VARIABLES
  dests,       \* exp->dests: mediator id -> export_dest_t (or Absent)
  flagged,     \* exp->flagged
  flagtimer,   \* exp->flagtimerfd != -1 (the 10 s re-sync timer is armed)
  intercepts,  \* exp->intercepts: LIID -> (CIN -> [cc, iri] or NoCounter)
  job,         \* the job run_encoding_job is iterating over, or None
  running,     \* exporter_thread_main has not returned -1
  wire,        \* mediator side: complete records received, in order
  records,     \* history: every record the encoder produced
  msgs,        \* messages read so far
  faults,      \* faults the environment has injected so far
  epoch,       \* ghost: how many times each LIID's state was created
  wanted,      \* ghost: the provisioner's last word on each mediator
  discarded    \* ghost: records released by DROP_ALL_MEDIATORS

vars == <<dests, flagged, flagtimer, intercepts, job, running, wire, records,
          msgs, faults, epoch, wanted, discarded>>

-----------------------------------------------------------------------------
(* Export buffer and mediator side.                                        *)

\* A connection as seen by the mediator: the record it has partly received.
Receive(st, ch) ==
  LET fits == IF ch.first THEN st.conn = None ELSE st.conn = ch.id
  IN  IF ~fits THEN [conn |-> None, wire |-> Append(st.wire, Garbled)]
      ELSE IF ch.last THEN [conn |-> None, wire |-> Append(st.wire, ch.id)]
      ELSE [conn |-> ch.id, wire |-> st.wire]

\* The bytes one send puts on the connection of dest d.
Emit(d, w, chunks) == FoldLeft(Receive, [conn |-> d.conn, wire |-> w], chunks)

\* Mutant: a dest created without init_export_buffer (no buffer state).
NewDestNoBuffer(a) == [addr |-> a, conn |-> NoConn, halted |-> FALSE,
                       awaiting |-> FALSE, buf |-> <<>>]

NewDest(a) == [addr |-> a, conn |-> NoConn, halted |-> FALSE,
               awaiting |-> FALSE, buf |-> <<>>, partial |-> FALSE]

\* close(dest->fd); dest->fd = -1: the mediator drops a partial record.
Close(d) == [d EXCEPT !.conn = NoConn]

\* Outcomes of transmit_buffered_records: an error, or one send() that
\* wrote the first n buffered records and, if p, part of the next one.
TxOutcomes(d) ==
  {[err |-> TRUE, n |-> 0, p |-> FALSE]} \cup
  {t \in [err : {FALSE}, n : 0 .. Len(d.buf), p : BOOLEAN] :
     t.p => t.n < Len(d.buf)}
TxClean(d) == [err |-> FALSE, n |-> Len(d.buf), p |-> FALSE]

\* transmit_buffered_records(&dest->buffer, dest->fd, BUF_BATCH_SIZE).
TransmitBuffered(d, w, t) ==
  LET whole == [i \in 1 .. t.n |->
                  [id |-> d.buf[i], first |-> i > 1 \/ ~d.partial, last |-> TRUE]]
      part  == IF t.p
               THEN <<[id |-> d.buf[t.n + 1], first |-> t.n > 0 \/ ~d.partial,
                       last |-> FALSE]>>
               ELSE <<>>
      rx    == Emit(d, w, whole \o part)
      flt   == IF t = TxClean(d) THEN 0 ELSE 1
  IN  IF t.err THEN [d |-> d, w |-> w, ret |-> -1, flt |-> 1]
      ELSE [d |-> [d EXCEPT !.buf = SubSeq(d.buf, t.n + 1, Len(d.buf)),
                            !.partial = t.p \/ (t.n = 0 /\ d.partial),
                            !.conn = rx.conn],
            w |-> rx.wire, ret |-> 0, flt |-> flt]

SendOutcomes == {"full", "partial", "eagain", "error"}

\* Mutant: an EAGAIN from sendmsg drops the record instead of buffering it.
ForwardFdDropOnAgain(d, w, id, s) ==
  CASE s = "full"    -> LET rx == Emit(d, w, <<[id |-> id, first |-> TRUE, last |-> TRUE]>>)
                        IN [d |-> [d EXCEPT !.conn = rx.conn], w |-> rx.wire,
                            ret |-> 0, flt |-> 0]
    [] s = "partial" -> LET rx == Emit(d, w, <<[id |-> id, first |-> TRUE, last |-> FALSE]>>)
                        IN [d |-> [d EXCEPT !.conn = rx.conn, !.buf = Append(@, id),
                                            !.partial = TRUE],
                            w |-> rx.wire, ret |-> 0, flt |-> 1]
    [] s = "eagain"  -> [d |-> d, w |-> w, ret |-> 0, flt |-> 1]
    [] s = "error"   -> [d |-> [d EXCEPT !.buf = Append(@, id)], w |-> w, ret |-> -1, flt |-> 1]

\* forward_fd: a direct sendmsg of one record when the buffer is empty.
ForwardFd(d, w, id, s) ==
  CASE s = "full"    -> LET rx == Emit(d, w, <<[id |-> id, first |-> TRUE, last |-> TRUE]>>)
                        IN [d |-> [d EXCEPT !.conn = rx.conn], w |-> rx.wire,
                            ret |-> 0, flt |-> 0]
    [] s = "partial" -> LET rx == Emit(d, w, <<[id |-> id, first |-> TRUE, last |-> FALSE]>>)
                        IN [d |-> [d EXCEPT !.conn = rx.conn, !.buf = Append(@, id),
                                            !.partial = TRUE],
                            w |-> rx.wire, ret |-> 0, flt |-> 1]
    [] s = "eagain"  -> [d |-> [d EXCEPT !.buf = Append(@, id)], w |-> w, ret |-> 0, flt |-> 1]
    [] s = "error"   -> [d |-> [d EXCEPT !.buf = Append(@, id)], w |-> w, ret |-> -1, flt |-> 1]

\* Mutant: a connected dest sends the new record without draining first.
ForwardMessageNoDrain(d, w, id, t, s) ==
  IF d.conn = NoConn
  THEN [d |-> [d EXCEPT !.buf = Append(@, id)], w |-> w, ret |-> 0, flt |-> 0]
  ELSE ForwardFd(d, w, id, s)

\* forward_message: buffer while disconnected, send directly when the buffer
\* is empty, otherwise drain first and send or buffer behind the backlog.
ForwardMessage(d, w, id, t, s) ==
  IF d.conn = NoConn
  THEN [d |-> [d EXCEPT !.buf = Append(@, id)], w |-> w, ret |-> 0, flt |-> 0]
  ELSE IF d.buf = <<>> THEN ForwardFd(d, w, id, s)
  ELSE LET tx == TransmitBuffered(d, w, t)
           fd == ForwardFd(tx.d, tx.w, id, s)
       IN  IF tx.ret = -1 THEN [d |-> d, w |-> w, ret |-> -1, flt |-> 1]
           ELSE IF tx.d.buf = <<>> THEN [fd EXCEPT !.flt = @ + tx.flt]
           ELSE [d |-> [tx.d EXCEPT !.buf = Append(@, id)], w |-> tx.w,
                 ret |-> 0, flt |-> tx.flt]

\* export_encoded_record: forward to the record's mediator, creating an
\* unannounced destination (add_unknown_destination) for an unknown id;
\* a forwarding error closes the connection and is returned.
ExportEncodedRecord(ds, w, id, m, t, s) ==
  LET known == ds[m] # Absent
      d     == IF known THEN ds[m] ELSE NewDest(NoAddr)
      fm    == ForwardMessage(d, w[m], id, t, s)
      d2    == IF known /\ fm.ret = -1 THEN Close(fm.d) ELSE fm.d
  IN  [dests |-> [ds EXCEPT ![m] = d2], wire |-> [w EXCEPT ![m] = fm.w],
       ret |-> fm.ret, flt |-> fm.flt]

\* Mutant: reconnecting without resetting partialfront.
ConnectKeepPartial(d) == [d EXCEPT !.conn = None]

\* connect_single_target on success: a fresh connection, and partialfront
\* reset so the head record is re-sent whole.
ConnectSingleTarget(d) == [d EXCEPT !.conn = None, !.partial = FALSE]

\* Whether connect_export_targets tries to connect dest d.
NeedsConnect(d) == d # Absent /\ ~d.halted /\ d.conn = NoConn

ConnOutcomes(d) ==
  IF NeedsConnect(d) /\ d.addr # NoAddr
  THEN [ok : BOOLEAN, t : TxOutcomes(d)]
  ELSE {[ok |-> FALSE, t |-> TxClean(NewDest(NoAddr))]}

\* Mutant: connect_export_targets only connects dests with buffered records.
ConnectTargetOnlyBuffered(d, w, o) ==
  IF d # Absent /\ d.buf = <<>> THEN [d |-> d, w |-> w, flt |-> 0]
  ELSE IF ~NeedsConnect(d) \/ d.addr = NoAddr THEN [d |-> d, w |-> w, flt |-> 0]
  ELSE IF ~o.ok THEN [d |-> d, w |-> w, flt |-> 1]
  ELSE LET c  == ConnectSingleTarget(d)
           tx == TransmitBuffered(c, w, o.t)
       IN  IF c.buf = <<>> THEN [d |-> c, w |-> w, flt |-> 0]
           ELSE IF tx.ret = -1 THEN [d |-> Close(c), w |-> w, flt |-> 1]
           ELSE [d |-> tx.d, w |-> tx.w, flt |-> tx.flt]

\* One dest of the connect_export_targets loop, with outcome o.
ConnectTarget(d, w, o) ==
  IF ~NeedsConnect(d) THEN [d |-> d, w |-> w, flt |-> 0]
  ELSE IF d.addr = NoAddr THEN [d |-> d, w |-> w, flt |-> 0]
  ELSE IF ~o.ok THEN [d |-> d, w |-> w, flt |-> 1]
  ELSE LET c  == ConnectSingleTarget(d)
           tx == TransmitBuffered(c, w, o.t)
       IN  IF c.buf = <<>> THEN [d |-> c, w |-> w, flt |-> 0]
           ELSE IF tx.ret = -1 THEN [d |-> Close(c), w |-> w, flt |-> 1]
           ELSE [d |-> tx.d, w |-> tx.w, flt |-> tx.flt]

-----------------------------------------------------------------------------
(* Initial state: exporter_thread_main entered for the first time.         *)

Init ==
  /\ dests = [m \in Mediators |-> Absent]
  /\ flagged = FALSE
  /\ flagtimer = FALSE
  /\ intercepts = [l \in LIIDs |-> NoIntercept]
  /\ job = None
  /\ running = TRUE
  /\ wire = [m \in Mediators |-> <<>>]
  /\ records = <<>>
  /\ msgs = 0
  /\ faults = 0
  /\ epoch = [l \in LIIDs |-> 0]
  /\ wanted = [m \in Mediators |-> FALSE]
  /\ discarded = {}

\* The thread waits in zmq_poll: not inside an encoding job, not exited.
Idle == running /\ job = None

\* read_exported_message: one more message from the PULL socket.
ReadMessage == Idle /\ msgs < MaxMsgs /\ msgs' = msgs + 1

-----------------------------------------------------------------------------
(* Actions.                                                                *)

\* The 1 s timer expired: exporter_thread_main returns and is entered
\* again, which calls connect_export_targets.
ConnectExportTargets ==
  /\ Idle
  /\ \E oc \in [Mediators -> UNION {ConnOutcomes(dests[m]) : m \in Mediators}] :
       /\ \A m \in Mediators : oc[m] \in ConnOutcomes(dests[m])
       /\ LET r == [m \in Mediators |-> ConnectTarget(dests[m], wire[m], oc[m])]
              f == Cardinality({m \in Mediators : r[m].flt = 1})
          IN  /\ faults + f <= MaxFaults
              /\ faults' = faults + f
              /\ dests' = [m \in Mediators |-> r[m].d]
              /\ wire' = [m \in Mediators |-> r[m].w]
  /\ UNCHANGED <<flagged, flagtimer, intercepts, job, running, records, msgs,
                 epoch, wanted, discarded>>

\* OPENLI_EXPORT_MEDIATOR: add_new_destination.
AddNewDestination(m, a) ==
  /\ ReadMessage
  /\ dests' = [dests EXCEPT ![m] =
       IF @ = Absent THEN NewDest(a)
       ELSE IF @.addr = NoAddr THEN [@ EXCEPT !.addr = a, !.conn = NoConn]
       ELSE LET moved == IF @.addr # a THEN [Close(@) EXCEPT !.addr = a] ELSE @
            IN  [moved EXCEPT !.awaiting = FALSE, !.halted = FALSE]]
  /\ flagtimer' = (flagtimer \/ flagged)
  /\ wanted' = [wanted EXCEPT ![m] = TRUE]
  /\ UNCHANGED <<flagged, intercepts, job, running, wire, records, faults,
                 epoch, discarded>>

\* Mutant: remove_destination unlinks and frees the export_dest_t, as
\* remove_all_destinations does, instead of halting it.
RemoveDestinationFree(m) ==
  /\ ReadMessage
  /\ dests' = [dests EXCEPT ![m] = Absent]
  /\ wanted' = [wanted EXCEPT ![m] = FALSE]
  /\ UNCHANGED <<flagged, flagtimer, intercepts, job, running, wire, records,
                 faults, epoch, discarded>>

\* OPENLI_EXPORT_DROP_SINGLE_MEDIATOR: remove_destination.
RemoveDestination(m) ==
  /\ ReadMessage
  /\ dests' = [dests EXCEPT ![m] =
       IF @ = Absent THEN @ ELSE [Close(@) EXCEPT !.halted = TRUE]]
  /\ wanted' = [wanted EXCEPT ![m] = FALSE]
  /\ UNCHANGED <<flagged, flagtimer, intercepts, job, running, wire, records,
                 faults, epoch, discarded>>

\* Mutant: replacing an intercept discards its CIN sequence numbers.
ReplaceResetCounters(st) == [c \in CINs |-> NoCounter]

\* exporter_new_intercept for an LIID that already has state: the details
\* are replaced and the CIN sequence numbers are left as they are.
ReplaceIntercept(st) == st

\* OPENLI_EXPORT_INTERCEPT_DETAILS: exporter_new_intercept.
ExporterNewIntercept(l) ==
  /\ ReadMessage
  /\ IF intercepts[l] # NoIntercept
     THEN /\ intercepts' = [intercepts EXCEPT ![l] = ReplaceIntercept(@)]
          /\ UNCHANGED epoch
     ELSE /\ intercepts' = [intercepts EXCEPT ![l] = [c \in CINs |-> NoCounter]]
          /\ epoch' = [epoch EXCEPT ![l] = @ + 1]
  /\ UNCHANGED <<dests, flagged, flagtimer, job, running, wire, records, faults,
                 wanted, discarded>>

\* OPENLI_EXPORT_INTERCEPT_OVER: exporter_end_intercept; an unknown LIID
\* returns -1, which read_exported_message passes up and
\* exporter_thread_main returns.
ExporterEndIntercept(l) ==
  /\ ReadMessage
  /\ IF intercepts[l] # NoIntercept
     THEN /\ intercepts' = [intercepts EXCEPT ![l] = NoIntercept]
          /\ UNCHANGED running
     ELSE /\ running' = FALSE
          /\ UNCHANGED intercepts
  /\ UNCHANGED <<dests, flagged, flagtimer, job, wire, records, faults, epoch,
                 wanted, discarded>>

\* OPENLI_EXPORT_IPCC / OPENLI_EXPORT_IPIRI: run_encoding_job up to its
\* loop.  A job for an unknown LIID is freed; otherwise the CIN's counter
\* is created at 0/0 if missing and the loop starts (EncodeStep).
RunEncodingJob(kind, l, c, m, n) ==
  /\ ReadMessage
  /\ IF intercepts[l] = NoIntercept
     THEN UNCHANGED <<intercepts, job>>
     ELSE /\ intercepts' = [intercepts EXCEPT ![l][c] =
                              IF @ = NoCounter THEN [cc |-> 0, iri |-> 0] ELSE @]
          /\ job' = [kind |-> kind, liid |-> l, cin |-> c, dest |-> m,
                     nrec |-> n, ind |-> 0]
  /\ UNCHANGED <<dests, flagged, flagtimer, running, wire, records, faults,
                 epoch, wanted, discarded>>

\* OPENLI_EXPORT_IPCC whose protobuf body does not unpack: read_ipcc_job
\* returns -1, which ends exporter_thread_main.
ReadIpccJobUnpackFailure ==
  /\ ReadMessage
  /\ running' = FALSE
  /\ UNCHANGED <<dests, flagged, flagtimer, intercepts, job, wire, records,
                 faults, epoch, wanted, discarded>>

\* The counter update of one encode call: cc_seqno++ whatever encode_ipcc
\* returned, iri_seqno++ only when encode_ipiri succeeded.
Bump(ctr, kind, ret) ==
  IF kind = "CC" THEN [ctr EXCEPT !.cc = @ + 1]
  ELSE IF ret >= 0 THEN [ctr EXCEPT !.iri = @ + 1]
  ELSE ctr

\* One iteration of run_encoding_job's while (ret != 0) loop: encode the
\* next record under the CIN's current sequence number, then
\* export_encoded_record.  Either failure ends the job with -1 and
\* exporter_thread_main returns.  encoded = FALSE is an encoder failure.
EncodeStep ==
  /\ running /\ job # None
  /\ LET ctr  == intercepts[job.liid][job.cin]
         d    == IF dests[job.dest] = Absent THEN NewDest(NoAddr) ELSE dests[job.dest]
     IN \E encoded \in BOOLEAN, t \in TxOutcomes(d), s \in SendOutcomes :
       LET ret  == IF ~encoded THEN -1
                   ELSE IF job.kind = "IRI" /\ job.ind + 1 < job.nrec THEN 1 ELSE 0
           id   == Len(records) + 1
           rec  == [liid |-> job.liid, cin |-> job.cin, kind |-> job.kind,
                    seq |-> IF job.kind = "CC" THEN ctr.cc ELSE ctr.iri,
                    epoch |-> epoch[job.liid], dest |-> job.dest]
           ex   == ExportEncodedRecord(dests, wire, id, job.dest, t, s)
           f    == IF ret < 0 THEN 1 ELSE ex.flt
       IN /\ faults + f <= MaxFaults
          /\ faults' = faults + f
          /\ intercepts' = [intercepts EXCEPT ![job.liid][job.cin] = Bump(ctr, job.kind, ret)]
          /\ IF ret < 0
             THEN /\ running' = FALSE /\ job' = None
                  /\ UNCHANGED <<dests, wire, records>>
             ELSE /\ records' = Append(records, rec)
                  /\ dests' = ex.dests
                  /\ wire' = ex.wire
                  /\ running' = (ex.ret # -1)
                  /\ job' = IF ex.ret = -1 \/ ret = 0 THEN None
                            ELSE [job EXCEPT !.ind = @ + 1]
  /\ UNCHANGED <<flagged, flagtimer, msgs, epoch, wanted, discarded>>

\* purge_unconfirmed_mediators: close and halt every dest still awaiting
\* confirmation.
PurgeUnconfirmed(ds) ==
  [m \in Mediators |->
     IF ds[m] # Absent /\ ds[m].awaiting
     THEN [Close(ds[m]) EXCEPT !.halted = TRUE] ELSE ds[m]]

\* The 10 s flag timer fired (exporter_thread_main 1261-1266).
FlagTimerExpired ==
  /\ Idle /\ flagtimer
  /\ dests' = PurgeUnconfirmed(dests)
  /\ flagged' = FALSE
  /\ flagtimer' = FALSE
  /\ UNCHANGED <<intercepts, job, running, wire, records, msgs, faults, epoch,
                 wanted, discarded>>

\* OPENLI_EXPORT_FLAG_MEDIATORS (the #if 0 reader): every dest awaits
\* re-confirmation; only re-announced mediators are wanted again.
FlagMediators ==
  /\ FlagSupport /\ ReadMessage
  /\ dests' = [m \in Mediators |->
                 IF dests[m] = Absent THEN Absent
                 ELSE [dests[m] EXCEPT !.awaiting = TRUE]]
  /\ flagged' = TRUE
  /\ wanted' = [m \in Mediators |-> FALSE]
  /\ UNCHANGED <<flagtimer, intercepts, job, running, wire, records, faults,
                 epoch, discarded>>

\* OPENLI_EXPORT_DROP_ALL_MEDIATORS (the #if 0 reader):
\* remove_all_destinations closes every connection and releases every
\* buffer, and the dest list starts empty.
RemoveAllDestinations ==
  /\ FlagSupport /\ ReadMessage
  /\ dests' = [m \in Mediators |-> Absent]
  /\ discarded' = discarded \cup
       UNION {ToSet(dests[m].buf) : m \in {n \in Mediators : dests[n] # Absent}}
  /\ wanted' = [m \in Mediators |-> FALSE]
  /\ UNCHANGED <<flagged, flagtimer, intercepts, job, running, wire, records,
                 faults, epoch>>

\* The live read_exported_message's default case, which FLAG_MEDIATORS and
\* DROP_ALL_MEDIATORS reach in this build: every frame of the message is
\* received and dropped, and 0 ends the batch.  Nothing else changes.
DrainUnhandledMessage ==
  /\ ~FlagSupport /\ ReadMessage
  /\ UNCHANGED <<dests, flagged, flagtimer, intercepts, job, running, wire,
                 records, faults, epoch, wanted, discarded>>

Kinds == {"CC", "IRI"}

\* read_new_mediator_message: the mediator id, ip and port frames (ip and
\* port together are one location).
MediatorMsg == [mediatorid : Mediators, addr : Addrs]

\* read_new_intercept_message: the LIID frame; the authcc and delivcc
\* frames only feed the encoder's headers and are abstracted away.
InterceptMsg == [liid : LIIDs]

\* read_ipiri_job: the destid, cin and liid frames of the twelve; the rest
\* only feed the encoder.
IpiriJob == [destid : Mediators, cin : CINs, liid : LIIDs]

\* read_ipcc_job: the destid, cin and liid of an unpacked IPCCJob.
IpccJob == [destid : Mediators, cin : CINs, liid : LIIDs]

\* read_exported_message: the message type byte selects the reader and the
\* handler; with FlagSupport the #if 0 reader's extra types are handled.
ReadExportedMessage ==
  \/ \E med \in MediatorMsg : AddNewDestination(med.mediatorid, med.addr)
  \/ \E med \in MediatorMsg : RemoveDestination(med.mediatorid)
  \/ \E cept \in InterceptMsg : ExporterNewIntercept(cept.liid)
  \/ \E cept \in InterceptMsg : ExporterEndIntercept(cept.liid)
  \/ \E j \in IpiriJob, n \in 1 .. MaxIriRecs :
        RunEncodingJob("IRI", j.liid, j.cin, j.destid, n)
  \/ \E j \in IpccJob : RunEncodingJob("CC", j.liid, j.cin, j.destid, 1)
  \/ ReadIpccJobUnpackFailure
  \/ FlagMediators
  \/ RemoveAllDestinations
  \/ DrainUnhandledMessage

\* One turn of exporter_thread_main's poll loop: a message read, a step of
\* the encoding loop it started, the flag timer, or the 1 s timer.
Next ==
  \/ ConnectExportTargets
  \/ ReadExportedMessage
  \/ EncodeStep
  \/ FlagTimerExpired

\* The exporter thread runs continuously: the 1 s timer keeps firing, a
\* started encoding loop runs to its end, an armed flag timer fires.  The
\* messages arriving are not under the thread's control: no fairness.
Fairness ==
  /\ WF_vars(ConnectExportTargets)
  /\ WF_vars(EncodeStep)
  /\ WF_vars(FlagTimerExpired)

Spec == Init /\ [][Next]_vars /\ Fairness

-----------------------------------------------------------------------------
(* Properties.                                                             *)

Ctr == [cc : 0 .. MaxRecords, iri : 0 .. MaxRecords]
Dest == [addr : Addrs \cup {NoAddr}, conn : {NoConn, None} \cup Ids,
         halted : BOOLEAN, awaiting : BOOLEAN, buf : Seq(Ids), partial : BOOLEAN]
Record == [liid : LIIDs, cin : CINs, kind : Kinds, seq : 0 .. MaxRecords,
           epoch : 1 .. MaxMsgs, dest : Mediators]

TypeOK ==
  /\ dests \in [Mediators -> Dest \cup {Absent}]
  /\ flagged \in BOOLEAN /\ flagtimer \in BOOLEAN
  /\ intercepts \in [LIIDs -> [CINs -> Ctr \cup {NoCounter}] \cup {NoIntercept}]
  /\ job \in {None} \cup [kind : Kinds, liid : LIIDs, cin : CINs, dest : Mediators,
                          nrec : 1 .. MaxIriRecs, ind : 0 .. MaxIriRecs]
  /\ running \in BOOLEAN
  /\ wire \in [Mediators -> Seq(Ids \cup {Garbled})]
  /\ records \in Seq(Record) /\ Len(records) <= MaxRecords
  /\ msgs \in 0 .. MaxMsgs /\ faults \in 0 .. MaxFaults
  /\ epoch \in [LIIDs -> 0 .. MaxMsgs]
  /\ wanted \in [Mediators -> BOOLEAN]
  /\ discarded \subseteq Ids

\* Per-destination order (forward_message sends only once the backlog is
\* drained, else buffers behind it): every mediator receives the records
\* addressed to it in the order they were encoded, each at most once.
OrderPreserved ==
  \A m \in Mediators : \A i, j \in 1 .. Len(wire[m]) :
    i < j /\ wire[m][i] # Garbled /\ wire[m][j] # Garbled => wire[m][i] < wire[m][j]

\* No split records (forward_fd's partial send recorded in partialfront,
\* connect_single_target resetting it on reconnect): a mediator never
\* receives the tail of a record whose head was not sent on that same
\* connection right before it.
NoSplitRecord == \A m \in Mediators : Garbled \notin ToSet(wire[m])

\* Sequence numbering (run_encoding_job with the cin_seqno_t counters kept
\* across intercept replacement): the records of each stream -- one LIID
\* lifetime, one CIN, IRI or CC -- carry 0, 1, 2, ... in encode order.
Stream(r) == <<r.liid, r.cin, r.kind, r.epoch>>
SeqConsecutive ==
  \A i \in 1 .. Len(records) :
    records[i].seq =
      Cardinality({j \in 1 .. i - 1 : Stream(records[j]) = Stream(records[i])})

\* No record lost while the exporter runs (forward_message, forward_fd and
\* the export buffer): every encoded record has reached its mediator, or
\* sits in a destination's buffer, or was released by DROP_ALL_MEDIATORS.
Delivered(i) == \E m \in Mediators : i \in ToSet(wire[m])
Buffered(i) == \E m \in Mediators : dests[m] # Absent /\ i \in ToSet(dests[m].buf)
NoRecordLost ==
  running => \A i \in 1 .. Len(records) : Delivered(i) \/ Buffered(i) \/ i \in discarded

\* Reconnection (connect_export_targets on every 1 s timer wake): an
\* announced, unhalted mediator that is not connected is eventually
\* connected again, or stops being a candidate, or the exporter stops.
Reconnectable(m) ==
  /\ running
  /\ NeedsConnect(dests[m])
  /\ dests[m].addr # NoAddr
ReconnectEventually == \A m \in Mediators : Reconnectable(m) ~> ~Reconnectable(m)

\* Announce clears halted (spec registry `announce`): a mediator the
\* provisioner has announced and not dropped since is never halted, also
\* when add_new_destination takes its "previously unannounced" branch.
AnnouncedNotHalted ==
  \A m \in Mediators : wanted[m] /\ dests[m] # Absent => ~dests[m].halted

\* Partial sends are retried on the 1 s timer wake (spec section 5): a
\* backlog on a connected, unhalted mediator is eventually sent, the
\* connection dropped, or the exporter stopped -- also when no further
\* record for that mediator arrives.
Backlogged(m) ==
  /\ running /\ dests[m] # Absent /\ ~dests[m].halted
  /\ dests[m].conn # NoConn /\ dests[m].buf # <<>>
BacklogEventuallySent == \A m \in Mediators : Backlogged(m) ~> ~Backlogged(m)

\* Refinement mapping onto ExportDelivery: the records produced are the
\* encoder's history, a mediator's queue is its export buffer (empty while
\* it has no export_dest_t), what it has received is its side of the wire,
\* and the sender is open while exporter_thread_main has not returned -1.
DeliveryQueue(m) == IF dests[m] = Absent THEN <<>> ELSE dests[m].buf

Delivery == INSTANCE ExportDelivery WITH
              produced  <- Len(records),
              queued    <- [m \in Mediators |-> DeliveryQueue(m)],
              delivered <- wire,
              open      <- running

\* The exporter implements a FIFO channel per mediator (forward_message,
\* forward_fd, the export buffer, connect_single_target's partialfront
\* reset, remove_destination keeping the buffer): every step either leaves
\* each mediator's received-plus-buffered records as they were, appends the
\* newly encoded record to its target's, or releases every buffer at once;
\* a mediator receives only the head of its own buffer; and only the step
\* on which the thread returns -1 may lose the record it was sending.
ImplementsDelivery == Delivery!Spec

====
