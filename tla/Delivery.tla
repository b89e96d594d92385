------------------------------ MODULE Delivery ------------------------------
(***************************************************************************)
(* One managed connection of the cbus daemon: the durable inbox of its     *)
(* alias, the connection record that is at once delivery journal and       *)
(* cursor, the scheduled pass that hands one inbox line at a time to the   *)
(* native adapter (Codex queue, Claude Code socket, OpenCode plugin), and  *)
(* the operator's verbs on it (reconcile, abandon, disconnect, reconnect). *)
(*                                                                         *)
(* A line is its position in the inbox: the code's byte offset, and the    *)
(* client ID the code derives from offset and content, name the same line. *)
(* The daemon can crash between any two durable steps; a journal save can  *)
(* fail and still have replaced the file; the write to a harness can be    *)
(* taken late or never.  While pc # "idle" the pass holds the connection   *)
(* lane and the alias's peer lock, so no verb and no local writer runs.    *)
(* A new line is begun only when the harness would take it now: OpenCode   *)
(* idle in the bound session, a managed Codex behind a verified frontend.  *)
(***************************************************************************)
EXTENDS Naturals, FiniteSets

CONSTANTS
    Harnesses,  \* the adapters to consider, of "codex", "claude", "opencode"
    MaxLines,   \* bound on the lines that ever reach the inbox
    MaxFaults,  \* bound on crashes, failed saves and spurious errors
    MaxEpochs   \* bound on the harness processes a session is resumed in

ASSUME BoundsAssumption ==
    /\ Harnesses \subseteq {"codex", "claude", "opencode"}
    /\ MaxLines \in Nat \ {0}
    /\ MaxFaults \in Nat
    /\ MaxEpochs \in Nat

VARIABLES
    kind,      \* the connection's harness; it never changes
    inbox,     \* number of complete lines in inbox.jsonl
    reg,       \* meta.json of the alias: "own", "gone" or another's ("other")
    up,        \* the daemon process runs
    mem,       \* the connection record in the daemon's memory
    disk,      \* the same record in connections/<id>.json
    pc,        \* inside deliver: "submit", "acked", "written"; else "idle"
    wire,      \* wire[l]: writes of l the harness may still take, or lose
    copies,    \* copies[l]: copies of l in the harness's queue or history
    epoch,     \* the harness process that owns the session now
    engaged,   \* it is in a turn, shows another session, or has no frontend
    expired,   \* claudeReceiptTimeout has passed since the recorded submission
    fenced,    \* a disconnect was confirmed and no reconnect tried since
    tickError, \* d.tickErrors holds an error of this connection
    faults     \* faults injected so far

vars == <<kind, inbox, reg, up, mem, disk, pc, wire, copies, epoch, engaged,
          expired, fenced, tickError, faults>>
journal == <<mem, disk>>
world   == <<kind, inbox, reg, up, wire, copies, epoch, engaged, expired,
             fenced>>

Lines == 1 .. MaxLines

\* What is left of a pending attempt: nothing; its journal entry only; with
\* the time of a clean socket write (SubmittedAt); with a queue ID or evidence.
Attempts == {"none", "journaled", "written", "acked"}

States == {"ready", "submitting", "awaiting-receipt", "uncertain", "error",
           "disconnected", "detached"}

Journal == [state : States, offset : 0 .. MaxLines, pending : Attempts,
            accepted : 0 .. MaxLines, abandoned : SUBSET Lines,
            binding : 0 .. MaxEpochs]

FreshJournal == [state |-> "ready", offset |-> 0, pending |-> "none",
                 accepted |-> 0, abandoned |-> {}, binding |-> 0]

Head(r)      == r.offset + 1
Owned        == reg = "own"
Bound        == mem.binding = epoch
Disconnected == mem.state = "disconnected"

\* A Codex sidecar can be started at any time; the Claude socket and the
\* OpenCode plugin belong to the one process the binding names.
Reachable == kind = "codex" \/ Bound

\* opencodeDeliveryReady, managedCodexDeliveryReady: what a first submission
\* waits for, without an error.  The Claude socket takes a line at any time,
\* and so does a Codex that is not managed, which is never engaged here.
HarnessReady == kind = "claude" \/ (~engaged /\ Reachable)

-----------------------------------------------------------------------------
(* The record's transitions. *)

\* pendingConnectionState: only a recorded clean write waits, up to its deadline.
PendingState(r) ==
    IF r.pending = "written" /\ ~expired THEN "awaiting-receipt" ELSE "uncertain"

\* accept: the cursor moves and the attempt is released in one record.
Settled(r) ==
    [r EXCEPT !.offset = @ + 1, !.accepted = @ + 1, !.pending = "none",
              !.state = IF @ = "disconnected" THEN @ ELSE "ready"]

\* Mutant: the abandoned attempt is not kept in Resolutions.
MutantGivenUpUnnamed(r) ==
    [r EXCEPT !.offset = @ + 1, !.pending = "none",
              !.state = IF @ = "disconnected" THEN @ ELSE "ready"]

\* abandon: the cursor passes the attempt, which moves to Resolutions.
GivenUp(r) ==
    [r EXCEPT !.offset = @ + 1, !.abandoned = @ \cup {Head(r)}, !.pending = "none",
              !.state = IF @ = "disconnected" THEN @ ELSE "ready"]

\* scheduledFailure: what an operator sees after a pass that ended in an error.
Failed(r) ==
    IF r.state \in {"disconnected", "detached"} THEN r
    ELSE [r EXCEPT !.state = IF r.pending = "none" THEN "error" ELSE "uncertain"]

Fault == faults < MaxFaults /\ faults' = faults + 1

\* durableJSON returned nil: the file holds rec, and only then memory takes it.
Saved(rec) == mem' = rec /\ disk' = rec /\ UNCHANGED faults

\* A verb's save of rec failed, possibly after the rename took effect; memory
\* keeps kept.
SaveFails(rec, kept) ==
    /\ Fault
    /\ mem' = kept
    /\ disk' \in {disk, rec}

\* A pass's save failed: scheduledFailure then saves what memory keeps, too.
PassSaveFails(rec, kept) ==
    /\ Fault
    /\ mem' = Failed(kept)
    /\ disk' \in {disk, rec, Failed(kept)}
    /\ tickError' = TRUE

\* A pass ended in an error that left memory alone: scheduledFailure.
PassFails ==
    /\ mem' = Failed(mem)
    /\ \/ disk' = Failed(mem) /\ UNCHANGED faults
       \/ disk' = disk /\ Fault
    /\ tickError' = TRUE

-----------------------------------------------------------------------------
(* The world around the daemon. *)

\* The peer lock of the alias is free: a crash releases it.
PeerLockFree == pc = "idle"

\* LocalSend, or the relay's appendRelay: a line under the alias's peer lock.
Append ==
    /\ PeerLockFree /\ Owned
    /\ inbox < MaxLines
    /\ inbox' = inbox + 1
    /\ UNCHANGED <<kind, reg, up, mem, disk, pc, wire, copies, epoch, engaged,
                   expired, fenced, tickError, faults>>

\* Mutant: the removal does not take the alias's peer lock.
MutantUnregisterUnlocked ==
    /\ Owned
    /\ reg' = "gone"
    /\ UNCHANGED <<kind, inbox, up, mem, disk, pc, wire, copies, epoch,
                   engaged, expired, fenced, tickError, faults>>

\* Unregister removes the alias's directory, meta.json and inbox with it.
Unregister ==
    /\ PeerLockFree /\ Owned
    /\ reg' = "gone"
    /\ UNCHANGED <<kind, inbox, up, mem, disk, pc, wire, copies, epoch,
                   engaged, expired, fenced, tickError, faults>>

\* Another session registers the alias: its own meta.json and inbox.
Reclaim ==
    /\ PeerLockFree
    /\ reg = "gone"
    /\ reg' = "other"
    /\ UNCHANGED <<kind, inbox, up, mem, disk, pc, wire, copies, epoch,
                   engaged, expired, fenced, tickError, faults>>

\* The harness takes a write that reached it: queue entry, transcript, message.
HarnessTake(l) ==
    /\ wire[l] > 0
    /\ wire' = [wire EXCEPT ![l] = @ - 1]
    /\ copies' = [copies EXCEPT ![l] = @ + 1]
    /\ UNCHANGED <<kind, inbox, reg, up, mem, disk, pc, epoch, engaged,
                   expired, fenced, tickError, faults>>

\* ... or drops it: nothing acknowledges a Claude socket write.
HarnessLose(l) ==
    /\ wire[l] > 0
    /\ wire' = [wire EXCEPT ![l] = @ - 1]
    /\ UNCHANGED <<kind, inbox, reg, up, mem, disk, pc, copies, epoch,
                   engaged, expired, fenced, tickError, faults>>

\* The session is resumed in another process; what it had not taken is lost.
HarnessRestart ==
    /\ kind # "codex"
    /\ epoch < MaxEpochs
    /\ epoch' = epoch + 1
    /\ wire' = [l \in Lines |-> 0]
    /\ UNCHANGED <<kind, inbox, reg, up, mem, disk, pc, copies, engaged,
                   expired, fenced, tickError, faults>>

\* The pane begins or ends a turn, shows another session or the bound one; the
\* frontend of a managed Codex goes or comes.
HarnessTurns ==
    /\ kind # "claude"
    /\ engaged' = ~engaged
    /\ UNCHANGED <<kind, inbox, reg, up, mem, disk, pc, wire, copies, epoch,
                   expired, fenced, tickError, faults>>

ReceiptDeadline ==
    /\ mem.pending = "written"
    /\ ~expired
    /\ expired' = TRUE
    /\ UNCHANGED <<kind, inbox, reg, up, mem, disk, pc, wire, copies, epoch,
                   engaged, fenced, tickError, faults>>

Crash ==
    /\ up
    /\ Fault
    /\ up' = FALSE
    /\ pc' = "idle"
    /\ mem' = disk
    /\ tickError' = FALSE
    /\ UNCHANGED <<kind, inbox, reg, disk, wire, copies, epoch, engaged,
                   expired, fenced>>

\* The next daemon loads the records; rearmLoaded detaches as Detach does.
Restart ==
    /\ ~up
    /\ up' = TRUE
    /\ UNCHANGED <<kind, inbox, reg, mem, disk, pc, wire, copies, epoch,
                   engaged, expired, fenced, tickError, faults>>

-----------------------------------------------------------------------------
(* The scheduled pass: scheduledOperation and deliver, under the lane. *)

PassRuns == up /\ pc = "idle" /\ mem.state \notin {"disconnected", "detached"}

\* The alias is no longer this connection's; memory says so whatever save does.
Detach ==
    /\ PassRuns /\ ~Owned
    /\ mem' = [mem EXCEPT !.state = "detached"]
    /\ \/ disk' = mem' /\ UNCHANGED <<faults, tickError>>
       \/ disk' = disk /\ Fault /\ tickError' = TRUE
    /\ UNCHANGED <<world, pc>>

\* Mutant: the attempt is marked in memory and saved with its acceptance only.
MutantJournalUnsaved ==
    /\ PassRuns /\ Owned
    /\ mem.pending = "none"
    /\ mem.offset < inbox
    /\ HarnessReady
    /\ mem' = [mem EXCEPT !.state = "submitting", !.pending = "journaled"]
    /\ pc' = "submit"
    /\ UNCHANGED <<world, disk, tickError, faults>>

\* The next unread line is journaled as the pending attempt before anything
\* is sent, and only for a harness that is ready for it; a failed save leaves
\* no attempt in memory.
JournalAttempt ==
    LET rec == [mem EXCEPT !.state = "submitting", !.pending = "journaled"] IN
    /\ PassRuns /\ Owned
    /\ mem.pending = "none"
    /\ mem.offset < inbox
    /\ HarnessReady
    /\ \/ Saved(rec) /\ pc' = "submit" /\ UNCHANGED tickError
       \/ PassSaveFails(rec, mem) /\ UNCHANGED pc
    /\ UNCHANGED world

\* Codex answers with a queue ID, OpenCode with the message it read back.
EnqueueAcked ==
    /\ pc = "submit" /\ kind # "claude" /\ Reachable
    /\ copies' = [copies EXCEPT ![Head(mem)] = @ + 1]
    /\ mem' = [mem EXCEPT !.pending = "acked"]
    /\ pc' = "acked"
    /\ UNCHANGED <<kind, inbox, reg, up, disk, wire, epoch, engaged, expired,
                   fenced, tickError, faults>>

\* The Claude socket took the whole line: a submission, not a receipt.
EnqueueWritten ==
    /\ pc = "submit" /\ kind = "claude" /\ Reachable
    /\ wire' = [wire EXCEPT ![Head(mem)] = @ + 1]
    /\ pc' = "written"
    /\ UNCHANGED <<kind, inbox, reg, up, mem, disk, copies, epoch, engaged,
                   expired, fenced, tickError, faults>>

\* Mutant: any enqueue error is taken for proof that nothing was submitted.
MutantUnconfirmedReleases ==
    LET rec == [mem EXCEPT !.pending = "none", !.state = "error"] IN
    /\ pc = "submit" /\ Reachable
    /\ wire' \in {wire, [wire EXCEPT ![Head(mem)] = @ + 1]}
    /\ Saved(rec) /\ tickError' = TRUE
    /\ pc' = "idle"
    /\ UNCHANGED <<kind, inbox, reg, up, copies, epoch, engaged, expired,
                   fenced>>

\* An error that proves nothing: the harness may still get the line.
EnqueueUnconfirmed ==
    /\ pc = "submit" /\ Reachable
    /\ wire' \in {wire, [wire EXCEPT ![Head(mem)] = @ + 1]}
    /\ PassFails
    /\ pc' = "idle"
    /\ UNCHANGED <<kind, inbox, reg, up, copies, epoch, engaged, expired,
                   fenced>>

\* provedNotSubmitted: the pinned process is gone, or the harness refuses the
\* request; only the adapter's own proof releases the attempt for another try.
EnqueueRefused ==
    LET rec == [mem EXCEPT !.pending = "none", !.state = "error"] IN
    /\ pc = "submit"
    /\ \/ Saved(rec) /\ tickError' = TRUE
       \/ PassSaveFails(rec, mem)
    /\ pc' = "idle"
    /\ UNCHANGED world

\* accept after the acknowledgement; a failed save keeps it in memory.
AcceptAck ==
    /\ pc = "acked"
    /\ \/ Saved(Settled(mem)) /\ tickError' = FALSE
       \/ PassSaveFails(Settled(mem), mem)
    /\ pc' = "idle"
    /\ UNCHANGED world

\* Mutant: a clean socket write is accepted without its receipt.
MutantWriteAccepted ==
    /\ pc = "written"
    /\ Saved(Settled(mem)) /\ tickError' = FALSE
    /\ pc' = "idle"
    /\ expired' = FALSE
    /\ UNCHANGED <<kind, inbox, reg, up, wire, copies, epoch, engaged,
                   fenced>>

\* The clean write's time is recorded; a failed save leaves it unrecorded.
RecordWrite ==
    LET rec == [mem EXCEPT !.pending = "written", !.state = "awaiting-receipt"] IN
    /\ pc = "written"
    /\ \/ Saved(rec) /\ tickError' = FALSE
       \/ PassSaveFails(rec, mem)
    /\ pc' = "idle"
    /\ expired' = FALSE
    /\ UNCHANGED <<kind, inbox, reg, up, wire, copies, epoch, engaged,
                   fenced>>

\* The lookup of the pending line reaches its store: a Codex sidecar and the
\* Claude transcript outlive the process, the OpenCode plugin does not.
LookupPossible == kind = "opencode" => Bound

Unresolved == mem.pending \in {"journaled", "written"}

\* Mutant: lookups end with the receipt deadline.
MutantFoundBeforeDeadline ==
    Unresolved /\ LookupPossible /\ copies[Head(mem)] > 0 /\ ~expired

\* A positive lookup shows a copy; a miss proves nothing about the future.
FoundInHarness == Unresolved /\ LookupPossible /\ copies[Head(mem)] > 0

\* Known acknowledgement or found receipt: the pass accepts, without a resend.
SettlePending ==
    /\ PassRuns /\ Owned
    /\ mem.pending = "acked" \/ FoundInHarness
    /\ \/ Saved(Settled(mem)) /\ tickError' = FALSE
       \/ PassSaveFails(Settled(mem), [mem EXCEPT !.pending = "acked"])
    /\ UNCHANGED <<world, pc>>

\* awaitClaudeReceipt before the deadline.
AwaitReceipt ==
    LET rec == [mem EXCEPT !.state = "awaiting-receipt"] IN
    /\ PassRuns /\ Owned
    /\ PendingState(mem) = "awaiting-receipt"
    /\ \/ mem = rec /\ UNCHANGED <<journal, faults>> /\ tickError' = FALSE
       \/ mem # rec /\ Saved(rec) /\ tickError' = FALSE
       \/ mem # rec /\ PassSaveFails(rec, mem)
    /\ UNCHANGED <<world, pc>>

\* Mutant: a miss after the deadline is not reported.
MutantLeaveSilent ==
    /\ PassRuns /\ Owned
    /\ Unresolved
    /\ UNCHANGED <<journal, faults, tickError, world, pc>>

\* Not found and nothing to wait for: uncertain, retained, never resent.
LeaveUncertain ==
    /\ PassRuns /\ Owned
    /\ Unresolved
    /\ PendingState(mem) = "uncertain"
    /\ PassFails
    /\ UNCHANGED <<world, pc>>

\* Any other error of a pass: unreadable registration or inbox, no sidecar,
\* a lookup that fails.
PassError ==
    /\ PassRuns
    /\ Fault
    /\ mem' = Failed(mem)
    /\ disk' \in {disk, Failed(mem)}
    /\ tickError' = TRUE
    /\ UNCHANGED <<world, pc>>

\* runScheduled after a quiet pass, with nothing to read or a harness that is
\* not ready for it: an error only ticks reported is cleared.
ClearTickError ==
    LET rec == [mem EXCEPT !.state = IF @ = "error" THEN "ready" ELSE @] IN
    /\ PassRuns /\ Owned
    /\ tickError
    /\ mem.pending = "none"
    /\ mem.offset = inbox \/ ~HarnessReady
    /\ tickError' = FALSE
    /\ mem' = rec
    /\ \/ disk' = rec /\ UNCHANGED faults
       \/ disk' = disk /\ Fault
    /\ UNCHANGED <<world, pc>>

-----------------------------------------------------------------------------
(* The operator's verbs: beginControl takes the lane, then the peer lock. *)

VerbRuns == up /\ pc = "idle" /\ Owned /\ mem.state # "detached"

\* reconcile: one read-only lookup; a disconnected connection stays so.
Reconcile ==
    LET missing == [mem EXCEPT !.state = IF Disconnected THEN @ ELSE PendingState(mem)] IN
    /\ VerbRuns
    /\ \/ /\ mem.pending = "acked" \/ FoundInHarness
          /\ \/ Saved(Settled(mem))
             \/ SaveFails(Settled(mem), [mem EXCEPT !.pending = "acked"])
       \/ /\ Unresolved /\ LookupPossible
          /\ Saved(missing) \/ SaveFails(missing, mem)
    /\ UNCHANGED <<world, pc, tickError>>

\* abandon: gives up the unacknowledged pending attempt, by its client ID.
Abandon ==
    /\ VerbRuns
    /\ Unresolved
    /\ Saved(GivenUp(mem)) \/ SaveFails(GivenUp(mem), mem)
    /\ UNCHANGED <<world, pc, tickError>>

\* disconnectExact: confirmed once the record is saved.
Disconnect ==
    LET rec == [mem EXCEPT !.state = "disconnected"] IN
    /\ VerbRuns
    /\ \/ Saved(rec) /\ fenced' = TRUE
       \/ SaveFails(rec, mem) /\ UNCHANGED fenced
    /\ UNCHANGED <<kind, inbox, reg, up, pc, wire, copies, epoch, engaged,
                   expired, tickError>>

\* connect on the existing record.  Claude and OpenCode are rebound, which is
\* refused while an attempt of another process is unresolved; for Codex only a
\* disconnected record changes state.
Reconnect ==
    LET state == IF mem.pending = "none" THEN "ready"
                 ELSE IF kind = "codex" THEN "uncertain" ELSE PendingState(mem)
        rec   == [mem EXCEPT !.binding = epoch,
                             !.state = IF kind = "codex" /\ ~Disconnected THEN @
                                       ELSE state] IN
    /\ VerbRuns
    /\ mem.pending = "none" \/ Reachable
    /\ Saved(rec) \/ SaveFails(rec, mem)
    /\ fenced' = FALSE
    /\ UNCHANGED <<kind, inbox, reg, up, pc, wire, copies, epoch, engaged,
                   expired, tickError>>

-----------------------------------------------------------------------------

Init ==
    /\ kind \in Harnesses
    /\ inbox = 0
    /\ reg = "own"
    /\ up = TRUE
    /\ mem = FreshJournal
    /\ disk = FreshJournal
    /\ pc = "idle"
    /\ wire = [l \in Lines |-> 0]
    /\ copies = [l \in Lines |-> 0]
    /\ epoch = 0
    /\ engaged = FALSE
    /\ expired = FALSE
    /\ fenced = FALSE
    /\ tickError = FALSE
    /\ faults = 0

World ==
    \/ Append
    \/ Unregister
    \/ Reclaim
    \/ \E l \in Lines : HarnessTake(l) \/ HarnessLose(l)
    \/ HarnessRestart
    \/ HarnessTurns
    \/ ReceiptDeadline
    \/ Crash
    \/ Restart

Submit == EnqueueAcked \/ EnqueueWritten \/ EnqueueUnconfirmed

Pass ==
    \/ Detach
    \/ JournalAttempt
    \/ Submit
    \/ EnqueueRefused
    \/ AcceptAck
    \/ RecordWrite
    \/ SettlePending
    \/ AwaitReceipt
    \/ LeaveUncertain
    \/ PassError
    \/ ClearTickError

Verb == Reconcile \/ Abandon \/ Disconnect \/ Reconnect

Next == World \/ Pass \/ Verb

Spec == Init /\ [][Next]_vars

\* The sweep visits every connection every two seconds, so a pass that can
\* take a step eventually does; a deliver under way runs to its end (its calls
\* have timeouts); a harness asked again and again eventually takes a line, and
\* decides what becomes of a write it received.
Fairness ==
    /\ WF_vars(Detach)
    /\ WF_vars(JournalAttempt)
    /\ SF_vars(Submit)
    /\ WF_vars(Submit \/ EnqueueRefused)
    /\ WF_vars(AcceptAck \/ RecordWrite)
    /\ WF_vars(SettlePending)
    /\ WF_vars(LeaveUncertain)
    /\ WF_vars(ReceiptDeadline)
    /\ \A l \in Lines : WF_vars(HarnessTake(l) \/ HarnessLose(l))

FairSpec == Spec /\ Fairness

-----------------------------------------------------------------------------
(* Properties. *)

TypeOK ==
    /\ kind \in Harnesses
    /\ inbox \in 0 .. MaxLines
    /\ reg \in {"own", "gone", "other"}
    /\ up \in BOOLEAN
    /\ mem \in Journal
    /\ disk \in Journal
    /\ pc \in {"idle", "submit", "acked", "written"}
    /\ wire \in [Lines -> Nat]
    /\ copies \in [Lines -> Nat]
    /\ epoch \in 0 .. MaxEpochs
    /\ engaged \in BOOLEAN
    /\ expired \in BOOLEAN
    /\ fenced \in BOOLEAN
    /\ tickError \in BOOLEAN
    /\ faults \in 0 .. MaxFaults

\* No line is ever in the harness's hands twice, whatever crashes, failed
\* journal saves, ambiguous writes, reconnects and operator verbs come between.
AtMostOnce == \A l \in Lines : wire[l] + copies[l] <= 1

SettledBy(r) ==
    \A l \in Lines : l <= r.offset => copies[l] > 0 \/ l \in r.abandoned

\* The cursor, in memory and in the file a crash would load, never passes a
\* line unless the harness has it or the record names it as abandoned.
NoLoss == SettledBy(mem) /\ SettledBy(disk)

\* A line is submitted only when every earlier one was taken by the harness or
\* given up by name: an unresolved attempt fences everything behind it.
NoOvertaking ==
    \A l \in Lines : wire[l] + copies[l] > 0 =>
        \A k \in 1 .. (l - 1) : copies[k] > 0 \/ k \in mem.abandoned

\* status reports the counts an operator reconciles by hand: every byte the
\* cursor passed is one accepted or one abandoned line, crash or not.
StatusAddsUp == mem.offset = mem.accepted + Cardinality(mem.abandoned)

Submission == \E l \in Lines : wire'[l] + copies'[l] > wire[l] + copies[l]

\* Memory's cursor never moves backwards, though the file's may: a failed save
\* that had replaced it is followed by a save of what memory kept.
CursorNeverRetreats == [][mem'.offset >= mem.offset]_vars

\* Nothing is submitted for a registration that was removed or replaced, and
\* nothing after a confirmed disconnect until a reconnect is asked for.
SubmitsOnlyWhileBound == [][Submission => Owned /\ ~fenced]_vars

\* Mail is settled, or the record says why not, or the harness is not there for
\* it: its process is gone, or it is not ready for a new line, which then waits
\* behind a healthy record.  A harness that stays ready gets its mail.
MailSettledOrExplained ==
    \A l \in Lines :
        inbox >= l ~> \/ mem.offset >= l
                      \/ mem.state \in {"uncertain", "disconnected", "detached"}
                      \/ ~Owned \/ ~up \/ ~Reachable
                      \/ mem.pending = "none" /\ ~HarnessReady

\* A receipt that is there is found, also after the deadline: lookups go on.
ReceiptIsFound ==
    \A l \in Lines :
        (Unresolved /\ Head(mem) = l /\ copies[l] > 0)
            ~> \/ mem.offset >= l
               \/ mem.state \in {"disconnected", "detached"}
               \/ ~Owned \/ ~up \/ ~LookupPossible

\* What a managed connection promises: what memory's cursor has passed is
\* resolved, what the harness holds was handed over.
Promise == INSTANCE Mailbox WITH
    resolved <- mem.offset, abandoned <- mem.abandoned, got <- copies

\* Every behaviour of a connection, crashes and failed saves included, is one
\* of the abstract mailbox.
ImplementsMailbox == Promise!Spec
=============================================================================
