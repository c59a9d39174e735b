------------------------------- MODULE Mailbox -------------------------------
(***************************************************************************)
(* The storage mailbox (storage/mailbox.py): one host (HSM) asks the       *)
(* storage pool manager (SPM) to extend volumes by writing messages into   *)
(* the slots of a block both can read.  Each side polls the other's block, *)
(* compares it with what it read the last time and handles what changed:   *)
(*                                                                         *)
(*    HSM writes a request, SPM extends and writes the reply,              *)
(*    HSM writes CLEAN,     SPM answers CLEAN, HSM frees the slot.         *)
(*                                                                         *)
(* A slot of a block is empty, CLEAN or a payload [vol, size].  The copy   *)
(* HSM_MailMonitor._outgoingMail is a function of its active messages      *)
(* (HsmOutgoing); the checksum only tells a torn read apart, and the event *)
(* block only shortens the polling delay.                                  *)
(***************************************************************************)
EXTENDS Naturals, Sequences, FiniteSets, SequencesExt, FiniteSetsExt

CONSTANTS
    Requests,   \* the calls of sendExtendMsg
    Vol, Size,  \* the volume and the size each asks for
    N,          \* MESSAGES_PER_MAILBOX
    Faults,     \* the kinds of fault that may happen, once each
    MaxFaults   \* how many of them in one behaviour

ASSUME MailboxAssumption ==
    /\ N \in Nat \ {0}
    /\ \A r \in Requests : Size[r] \in Nat \ {0}

VARIABLES
    req,        \* what became of each request, for the properties
    queue,      \* HSM_Mailbox._queue
    active,     \* _activeMessages by slot, "none" where the slot is unused
    hsmIn,      \* HSM_MailMonitor._incomingMail
    hsmPc,      \* where the loop of HSM_MailMonitor._run is
    sendMail,   \* its local of that name
    outbox,     \* the host's block, written by the HSM
    inbox,      \* the host's block, written by the SPM
    spmPc,      \* where the loop of SPM_MailMonitor._run is
    registered, \* SPM_MailMonitor._messageTypes knows the extend message
    spmIn,      \* SPM_MailMonitor._incomingMail
    spmOut,     \* SPM_MailMonitor._outgoingMail
    tasks,      \* processRequest calls in the SPM's thread pool
    served,     \* requests some extendVolume was called for while active
    faults      \* the kinds of fault that happened so far

hsmVars == <<queue, active, hsmIn, hsmPc, sendMail>>
spmVars == <<spmPc, registered, spmIn, spmOut, tasks>>
vars == <<req, hsmVars, outbox, inbox, spmVars, served, faults>>

Slots == 1..N
Empty == [code |-> "empty"]
CLEAN == [code |-> "clean"]
Payload(r) == [vol |-> Vol[r], size |-> Size[r]]
Payloads == [vol : {Vol[r] : r \in Requests},
             size : {0} \union {Size[r] : r \in Requests}]
Mail == Payloads \union {Empty, CLEAN}
EmptyMail == [s \in Slots |-> Empty]

IsPayload(m) == m \notin {Empty, CLEAN}
Used == {s \in Slots : active[s] # "none"}
HsmOutgoing == [s \in Slots |-> CASE active[s] = "none" -> Empty
                                  [] active[s] = "CLEAN"  -> CLEAN
                                  [] OTHER -> Payload(active[s])]

Init ==
    /\ req = [r \in Requests |-> "new"]
    /\ queue = <<>> /\ active = [s \in Slots |-> "none"]
    /\ hsmIn = EmptyMail /\ hsmPc = "take" /\ sendMail = FALSE
    /\ outbox = EmptyMail /\ inbox = EmptyMail
    /\ spmPc = "check" /\ registered = TRUE
    /\ spmIn = EmptyMail /\ spmOut = EmptyMail
    /\ tasks = <<>> /\ served = {} /\ faults = {}

\* A fault of this kind happens now, for the first time.
Fault(kind) ==
    /\ kind \in Faults \ faults
    /\ Cardinality(faults \intersect Faults) < MaxFaults
    /\ faults' = faults \union {kind}

-----------------------------------------------------------------------------
(* The host's side.                                                        *)

sendExtendMsg(r) ==
    /\ req[r] = "new" /\ hsmPc # "down"
    /\ req' = [req EXCEPT ![r] = "queued"]
    /\ queue' = Append(queue, r)
    /\ UNCHANGED <<active, hsmIn, hsmPc, sendMail, outbox, inbox, spmVars,
                   served, faults>>

\* A message equal to one that is active is ignored, its callback with it;
\* otherwise the first free slot takes it.  Both make _run write the block.
_handleMessage_dup(r) ==
    \E s \in Used : active[s] # "CLEAN" /\ Payload(active[s]) = Payload(r)

_handleMessage ==
    /\ hsmPc = "take" /\ queue # <<>> /\ Cardinality(Used) < N
    /\ LET r == Head(queue)
           free == Min(Slots \ Used)
       IN  IF _handleMessage_dup(r)
             THEN /\ req' = [req EXCEPT ![r] = "dropped"]
                  /\ UNCHANGED active
             ELSE /\ req' = [req EXCEPT ![r] = "active"]
                  /\ active' = [active EXCEPT ![free] = r]
    /\ queue' = Tail(queue) /\ sendMail' = TRUE
    /\ UNCHANGED <<hsmIn, hsmPc, outbox, inbox, spmVars, served, faults>>

\* What a read of the inbox shows in a slot that is worth handling: not empty
\* and not what the previous read showed.
Novel(s) == s \in Used /\ inbox[s] # Empty /\ inbox[s] # hsmIn[s]

\* A reply to a slot that is already CLEAN raises in the handler of the failed
\* checkReply, and leaves the rest of the block and _incomingMail as they were.
Raises(s) == Novel(s) /\ inbox[s] # CLEAN /\ active[s] = "CLEAN"

checkReply(r, reply) == reply.vol = Vol[r]

_handleResponses_in(S) ==
    /\ active' = [s \in Slots |-> IF s \notin S THEN active[s]
                                  ELSE IF inbox[s] = CLEAN THEN "none"
                                  ELSE "CLEAN"]
    /\ req' = [r \in Requests |->
                 IF \E s \in S : active[s] = r /\ inbox[s] # CLEAN
                   THEN LET s == CHOOSE s \in S : active[s] = r
                        IN  IF checkReply(r, inbox[s]) THEN "answered" ELSE "refused"
                   ELSE req[r]]

_handleResponses ==
    LET novel == {s \in Slots : Novel(s)}
        bad == {s \in Slots : Raises(s)}
    IN  IF bad = {}
          THEN /\ _handleResponses_in(novel)
               /\ hsmIn' = inbox
               /\ sendMail' = (sendMail \/ novel # {})
               /\ UNCHANGED faults
          ELSE /\ _handleResponses_in({s \in novel : s < Min(bad)})
               /\ faults' = faults \union {"raised"}
               /\ UNCHANGED <<hsmIn, sendMail>>

\* The monitor thread takes messages while it has free slots, then reads the
\* inbox; it blocks on the queue while nothing is active.
NoMoreMessages ==
    hsmPc = "take" /\ Used # {} /\ (queue = <<>> \/ Cardinality(Used) = N)

hsm_checkForMail ==
    /\ NoMoreMessages
    /\ _handleResponses
    /\ hsmPc' = "send"
    /\ UNCHANGED <<queue, outbox, inbox, spmVars, served>>

hsm_checkForMail_fails ==
    /\ NoMoreMessages /\ Fault("hsmRead")
    /\ hsmPc' = "send"
    /\ UNCHANGED <<req, queue, active, hsmIn, sendMail, outbox, inbox, spmVars, served>>

\* _sendMail does not look at dd's exit code: a failed write is not repeated.
hsm_sendMail ==
    /\ hsmPc = "send"
    /\ hsmPc' = "take" /\ sendMail' = FALSE
    /\ \/ /\ ~sendMail /\ UNCHANGED <<outbox, faults>>
       \/ /\ sendMail /\ outbox' = HsmOutgoing /\ UNCHANGED faults
       \/ /\ sendMail /\ Fault("hsmWrite") /\ UNCHANGED outbox
    /\ UNCHANGED <<req, queue, active, hsmIn, inbox, spmVars, served>>

\* vdsm on the host is killed: its queue and active messages are gone.
HsmCrash ==
    /\ hsmPc # "down" /\ Fault("hsmRestart")
    /\ hsmPc' = "down" /\ sendMail' = FALSE /\ queue' = <<>>
    /\ active' = [s \in Slots |-> "none"]
    /\ req' = [r \in Requests |-> IF req[r] \in {"queued", "active"} THEN "lost" ELSE req[r]]
    /\ UNCHANGED <<hsmIn, outbox, inbox, spmVars, served>>

\* HSM_MailMonitor.__init__: _initMailbox reads the inbox (and is repeated by
\* _run until it can), _sendMail clears the outbox.
HsmStart ==
    /\ hsmPc = "down"
    /\ hsmPc' = "take" /\ hsmIn' = inbox
    /\ \/ outbox' = EmptyMail /\ UNCHANGED faults
       \/ UNCHANGED outbox /\ Fault("hsmWrite")
    /\ UNCHANGED <<req, queue, active, sendMail, inbox, spmVars, served>>

-----------------------------------------------------------------------------
(* The SPM's side.                                                         *)

\* Mutant: a CLEAN message seen before is not answered again.
_handleRequests_cleanOnce(mail) ==
    LET clean == {s \in Slots : mail[s] = CLEAN /\ spmIn[s] # CLEAN}
        new == {s \in Slots : IsPayload(mail[s]) /\ mail[s] # spmIn[s]}
        calls == SetToSeq({[slot |-> s, msg |-> mail[s], step |-> "extend"] : s \in new})
    IN  /\ spmOut' = [s \in Slots |-> IF s \in clean THEN CLEAN ELSE spmOut[s]]
        /\ spmIn' = mail
        /\ tasks' = IF registered THEN tasks \o calls ELSE tasks
        /\ spmPc' = IF clean # {} THEN "write" ELSE "check"
        /\ faults' = IF registered \/ new = {} THEN faults ELSE faults \union {"early"}

\* Mutant: a request read before is processed again once its task is done.
_handleRequests_again(mail) ==
    LET clean == {s \in Slots : mail[s] = CLEAN}
        calls == SetToSeq({[slot |-> s, msg |-> mail[s], step |-> "extend"] :
                             s \in {u \in Slots : IsPayload(mail[u]) /\
                                       \A i \in DOMAIN tasks : tasks[i].slot # u}})
    IN  /\ spmOut' = [s \in Slots |-> IF s \in clean THEN CLEAN ELSE spmOut[s]]
        /\ spmIn' = mail
        /\ tasks' = IF registered THEN tasks \o calls ELSE tasks
        /\ spmPc' = IF clean # {} THEN "write" ELSE "check"
        /\ UNCHANGED faults

\* _checkForMail up to the write.  Until registerMessageType was called a
\* request is of an unknown type: it is logged, and remembered as seen.
_handleRequests(mail) ==
    LET clean == {s \in Slots : mail[s] = CLEAN}
        new == {s \in Slots : IsPayload(mail[s]) /\ mail[s] # spmIn[s]}
        calls == SetToSeq({[slot |-> s, msg |-> mail[s], step |-> "extend"] : s \in new})
    IN  /\ spmOut' = [s \in Slots |-> IF s \in clean THEN CLEAN ELSE spmOut[s]]
        /\ spmIn' = mail
        /\ tasks' = IF registered THEN tasks \o calls ELSE tasks
        /\ spmPc' = IF clean # {} THEN "write" ELSE "check"
        /\ faults' = IF registered \/ new = {} THEN faults ELSE faults \union {"early"}

spm_checkForMail ==
    /\ spmPc = "check" /\ _handleRequests(outbox)
    /\ UNCHANGED <<req, hsmVars, outbox, inbox, registered, served>>

\* The read overlaps the host's write: a block whose checksum does not match
\* counts as empty, and is remembered as empty.
spm_checkForMail_torn ==
    /\ spmPc = "check" /\ hsmPc = "send" /\ sendMail
    /\ spmIn' = EmptyMail /\ Fault("torn")
    /\ UNCHANGED <<req, hsmVars, outbox, inbox, spmPc, registered, spmOut, tasks, served>>

\* The whole of _outgoingMail is written when some slot was CLEAN.
spm_writeMail ==
    /\ spmPc = "write"
    /\ spmPc' = "check"
    /\ \/ inbox' = spmOut /\ UNCHANGED faults
       \/ UNCHANGED inbox /\ Fault("spmWrite")
    /\ UNCHANGED <<req, hsmVars, outbox, registered, spmIn, spmOut, tasks, served>>

\* SPM_Extend_Message.processRequest: pool.extendVolume, then sendReply with
\* the requested size, or with size 0 when it raised.
processRequest_extend(i) ==
    LET t == tasks[i]
    IN  /\ t.step = "extend"
        /\ \/ /\ tasks' = [tasks EXCEPT ![i].step = "reply"]
              /\ UNCHANGED faults
           \/ /\ tasks' = [tasks EXCEPT ![i].step = "reply", ![i].msg.size = 0]
              /\ Fault("extend")
        /\ served' = served \union {r \in Requests : active[t.slot] = r /\ Payload(r) = t.msg}
        /\ UNCHANGED <<req, hsmVars, outbox, inbox, spmPc, registered, spmIn, spmOut>>

sendReply(i) ==
    LET t == tasks[i]
    IN  /\ t.step = "reply"
        /\ tasks' = RemoveAt(tasks, i)
        /\ spmOut' = [spmOut EXCEPT ![t.slot] = t.msg]
        /\ \/ inbox' = spmOut' /\ UNCHANGED faults
           \/ UNCHANGED inbox /\ Fault("spmWrite")
        /\ UNCHANGED <<req, hsmVars, outbox, spmPc, registered, spmIn, served>>

\* The SPM host loses the role: its monitor and its tasks are gone.
SpmCrash ==
    /\ spmPc # "down" /\ Fault("spmRestart")
    /\ spmPc' = "down" /\ tasks' = <<>>
    /\ UNCHANGED <<req, hsmVars, outbox, inbox, registered, spmIn, spmOut, served>>

\* SPM_MailMonitor.__init__ and start: every request it reads next is new to
\* it.  startSpm registers the message type only after the thread was started.
SpmStart ==
    /\ spmPc = "down"
    /\ spmPc' = "check" /\ registered' = FALSE
    /\ spmIn' = EmptyMail /\ spmOut' = EmptyMail
    /\ \/ inbox' = EmptyMail /\ UNCHANGED faults
       \/ UNCHANGED inbox /\ Fault("spmWrite")
    /\ UNCHANGED <<req, hsmVars, outbox, tasks, served>>

registerMessageType ==
    /\ spmPc # "down" /\ ~registered
    /\ registered' = TRUE
    /\ UNCHANGED <<req, hsmVars, outbox, inbox, spmPc, spmIn, spmOut, tasks, served, faults>>

-----------------------------------------------------------------------------
Hsm == _handleMessage \/ hsm_checkForMail \/ hsm_sendMail
Spm == spm_checkForMail \/ spm_writeMail
Task(i) == processRequest_extend(i) \/ sendReply(i)

Next ==
    \/ \E r \in Requests : sendExtendMsg(r)
    \/ Hsm \/ hsm_checkForMail_fails \/ HsmCrash \/ HsmStart
    \/ Spm \/ spm_checkForMail_torn \/ SpmCrash \/ SpmStart \/ registerMessageType
    \/ \E i \in DOMAIN tasks : Task(i)

\* The two monitor threads poll, restarted services come back, and the thread
\* pool runs what it was given: the first task not finished is never starved.
Fairness ==
    /\ WF_vars(Hsm) /\ WF_vars(HsmStart)
    /\ WF_vars(Spm) /\ WF_vars(SpmStart) /\ WF_vars(registerMessageType)
    /\ WF_vars(tasks # <<>> /\ Task(1))

Spec == Init /\ [][Next]_vars /\ Fairness

-----------------------------------------------------------------------------
(* Properties.                                                             *)

\* A request in a slot is one that waits for its answer: none that was answered,
\* refused, dropped or lost in a restart still occupies a slot.
TypeOK ==
    /\ \A r \in Requests : (\E s \in Slots : active[s] = r) => req[r] = "active"
    /\ req \in [Requests -> {"new", "queued", "active", "dropped", "answered", "refused", "lost"}]
    /\ queue \in Seq(Requests)
    /\ active \in [Slots -> Requests \union {"none", "CLEAN"}]
    /\ {hsmIn, outbox, inbox, spmIn, spmOut} \subseteq [Slots -> Mail]
    /\ hsmPc \in {"down", "take", "send"} /\ sendMail \in BOOLEAN
    /\ spmPc \in {"down", "check", "write"} /\ registered \in BOOLEAN
    /\ tasks \in Seq([slot : Slots, msg : Payloads, step : {"extend", "reply"}])
    /\ served \subseteq Requests

\* The types hold, and, while neither side was restarted and no read was torn, a reply that reaches
\* a slot belongs to the request in that slot, although slots are reused, reads
\* and writes fail and replies come late: checkReply rejects none, and no
\* callback runs before the SPM called extendVolume for that very request.
RepliesAreOwn ==
    /\ TypeOK
    /\ faults \intersect {"hsmRestart", "spmRestart", "torn"} = {}
         => \A r \in Requests : /\ req[r] # "refused"
                                /\ req[r] = "answered" => r \in served

\* Nothing in either copy of the mail still has to be written.
Synced == outbox = HsmOutgoing /\ inbox = spmOut

\* Every slot is freed again, so every request accepted is settled and the ones
\* queued behind a full mailbox get their turn: whatever restarts, lost reads,
\* torn reads and failed extensions happen, the CLEAN handshake completes,
\* unless mail stays unwritten after a dd that failed (it is not repeated) or
\* after _handleResponses raised, or a new SPM polled before registerMessageType.
EverySlotFreed ==
    \A s \in Slots :
        []<>(\/ active[s] = "none" \/ "early" \in faults
             \/ ~Synced /\ faults \intersect {"hsmWrite", "spmWrite", "raised"} # {})
=============================================================================
