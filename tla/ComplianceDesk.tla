---------------------------- MODULE ComplianceDesk ----------------------------
(***************************************************************************)
(* The compliance services that keep something in the store                *)
(* (server/compliance/services) and the timers that look after it:         *)
(* enrolment sessions of five minutes, events held back by the settlement  *)
(* relay, its operations log with its retention, decoys, view-key          *)
(* commitments and the public report.                                      *)
(*                                                                         *)
(* Every save writes the whole store, so what one service changed in       *)
(* memory only reaches the disk with the next save of another.  A clock    *)
(* is an action that lets something become due, and it runs through        *)
(* crashes.                                                                *)
(***************************************************************************)
EXTENDS Integers, FiniteSets

CONSTANTS Tokens,      \* enrolment sessions
          Transfers,   \* events of settlements, delayed by a jitter
          Decoys,      \* decoy events; an id is used again when it is sent again
          Accounts, MaxKeys,   \* bound on the view keys issued to an account
          None

(* What the constants have to be.                                          *)
ConstantTypes == MaxKeys \in Nat /\ Transfers \intersect Decoys = {}

VARIABLES up,
          mem, disk,   \* the store in memory and in the database
          lapsed,      \* tokens past their expiry
          due,         \* events past their delay
          old,         \* log entries past the retention window
          begun, joined,   \* history: tokens given out; times each was completed
          issued,      \* history: the newest view key given to an account
          reported     \* history: transfers a report or the ledger has shown

vars == <<up, mem, disk, lapsed, due, old, begun, joined, issued, reported>>
history == <<begun, joined, issued, reported>>

Events == Transfers \union Decoys
Logs == ({"decoy", "release"} \X Events) \union {<<"purge", None>>}
Stored == [sessions : SUBSET Tokens, queued : SUBSET Events, released : SUBSET Events,
           logs : SUBSET Logs, keys : [Accounts -> 0..MaxKeys]]
Empty == [sessions |-> {}, queued |-> {}, released |-> {}, logs |-> {},
          keys |-> [a \in Accounts |-> 0]]

TypeOK ==
  /\ up \in BOOLEAN /\ mem \in Stored /\ disk \in Stored
  /\ lapsed \subseteq Tokens /\ due \subseteq Events /\ old \subseteq Logs
  /\ begun \subseteq Tokens /\ joined \in [Tokens -> 0..2]
  /\ issued \in [Accounts -> 0..MaxKeys] /\ reported \subseteq Transfers

Init ==
  /\ up = TRUE /\ mem = Empty /\ disk = Empty
  /\ lapsed = {} /\ due = {} /\ old = {}
  /\ begun = {} /\ joined = [t \in Tokens |-> 0]
  /\ issued = [a \in Accounts |-> 0] /\ reported = {}

Saved(store) == mem' = store /\ disk' = store
Changed(store) == mem' = store /\ UNCHANGED disk

-----------------------------------------------------------------------------
(* Enrolment (enrollmentRelay.ts): purgeExpired does not save.             *)

(* Mutant of Purged: sessions are kept until they are used.                *)
PurgedNever(store) == store

Purged(store) == [store EXCEPT !.sessions = @ \ lapsed]
Without(store, t) == [store EXCEPT !.sessions = @ \ {t}]

BeginHandshake(t) ==
  /\ up /\ t \notin begun
  /\ Saved([Purged(mem) EXCEPT !.sessions = @ \union {t}])
  /\ begun' = begun \union {t}
  /\ UNCHANGED <<up, lapsed, due, old, joined, issued, reported>>

(* Mutant of Wiped: the session is taken out of memory and not saved.      *)
WipedInMemory(t) == Changed(Without(Purged(mem), t))

Wiped(t) == Saved(Without(Purged(mem), t))

(* A session is used up by its completion, or by expiring just before it.  *)
CompleteHandshake(t, intime) ==
  /\ up /\ t \in begun
  /\ IF t \in Purged(mem).sessions
       THEN Wiped(t) /\ joined' = [joined EXCEPT ![t] = IF intime /\ @ < 2 THEN @ + 1 ELSE @]
       ELSE Changed(Purged(mem)) /\ UNCHANGED joined
  /\ UNCHANGED <<up, lapsed, due, old, begun, issued, reported>>

-----------------------------------------------------------------------------
(* The relay (settlementRelay.ts, services/relay.ts).                      *)

Queue(store, e) == [store EXCEPT !.queued = @ \union {e}, !.released = @ \ {e}]

(* A settlement queues its event and saves.                                *)
Submit(e) ==
  /\ up /\ e \notin mem.queued \union mem.released
  /\ Saved(Queue(mem, e))
  /\ UNCHANGED <<up, lapsed, due, old, history>>

(* emitDecoy, every 45 seconds.                                            *)
EmitDecoy(e) ==
  /\ up
  /\ Saved([Queue(mem, e) EXCEPT !.logs = @ \union {<<"decoy", e>>}])
  /\ due' = due \ {e} /\ old' = old \ {<<"decoy", e>>}
  /\ UNCHANGED <<up, lapsed, history>>

Ready == mem.queued \intersect due

Flushed(logged) ==
  [mem EXCEPT !.queued = @ \ Ready, !.released = @ \union Ready,
              !.logs = IF logged THEN @ \union ({"release"} \X Ready) ELSE @]

Show(shown) == reported' = IF shown THEN reported \union (mem'.released \intersect Transfers)
                          ELSE reported

(* Mutant of Flush: the release is not saved.                              *)
FlushInMemory(logged, shown) ==
  /\ up
  /\ Changed(Flushed(logged)) /\ Show(shown)
  /\ old' = IF logged THEN old \ ({"release"} \X Ready) ELSE old
  /\ UNCHANGED <<up, lapsed, due, begun, joined, issued>>

(* The timer's flush, the one before publicStats, which shows what is      *)
(* released, and the one of the public ledger, which keeps no log.         *)
Flush(logged, shown) ==
  /\ up
  /\ IF Ready = {} THEN UNCHANGED <<mem, disk>> ELSE Saved(Flushed(logged))
  /\ Show(shown)
  /\ old' = IF logged THEN old \ ({"release"} \X Ready) ELSE old
  /\ UNCHANGED <<up, lapsed, due, begun, joined, issued>>

(* The audit report shows what is released, without a flush.               *)
Report ==
  /\ up
  /\ reported' = reported \union (mem.released \intersect Transfers)
  /\ UNCHANGED <<up, mem, disk, lapsed, due, old, begun, joined, issued>>

(* The hourly timer: purgeClass3, with a log entry of its own when it      *)
(* removed any, then purgeExpired, which is not saved.                     *)
Kept == [mem EXCEPT !.logs = IF @ \intersect old = {} THEN @
                             ELSE (@ \ old) \union {<<"purge", None>>}]
Purge ==
  /\ up
  /\ mem' = Purged(Kept)
  /\ disk' = IF mem.logs \intersect old = {} THEN disk ELSE Kept
  /\ old' = old \ mem.logs
  /\ UNCHANGED <<up, lapsed, due, history>>

-----------------------------------------------------------------------------
(* View keys (selectiveDisclosure.ts): the newest key replaces the others. *)

IssueViewKey(a) ==
  /\ up /\ issued[a] < MaxKeys
  /\ issued' = [issued EXCEPT ![a] = @ + 1]
  /\ Saved([mem EXCEPT !.keys[a] = issued'[a]])
  /\ UNCHANGED <<up, lapsed, due, old, begun, joined, reported>>

(* attestAuditorProof accepts the key whose commitment is on file.         *)
Attests(a, key) == up /\ mem.keys[a] # 0 /\ key = mem.keys[a]

-----------------------------------------------------------------------------
(* Time, and the process.                                                  *)

Lapse(t) == t \in begun \ lapsed /\ lapsed' = lapsed \union {t}
            /\ UNCHANGED <<up, mem, disk, due, old, history>>
FallDue(e) == e \in (mem.queued \union disk.queued) \ due /\ due' = due \union {e}
              /\ UNCHANGED <<up, mem, disk, lapsed, old, history>>
Age(l) == l \in (mem.logs \union disk.logs) \ old /\ old' = old \union {l}
          /\ UNCHANGED <<up, mem, disk, lapsed, due, history>>

Crash == up /\ up' = FALSE /\ UNCHANGED <<mem, disk, lapsed, due, old, history>>
Restart == ~up /\ up' = TRUE /\ mem' = disk
           /\ UNCHANGED <<disk, lapsed, due, old, history>>

Next ==
  \/ \E t \in Tokens : BeginHandshake(t) \/ Lapse(t)
                       \/ \E intime \in BOOLEAN : CompleteHandshake(t, intime)
  \/ \E e \in Transfers : Submit(e)
  \/ \E e \in Decoys : EmitDecoy(e)
  \/ \E e \in Events : FallDue(e)
  \/ \E l \in Logs : Age(l)
  \/ \E logged, shown \in BOOLEAN : Flush(logged, shown)
  \/ Report \/ Purge
  \/ \E a \in Accounts : IssueViewKey(a)
  \/ Crash \/ Restart

(* The timers run while the process does.                                  *)
Timers == WF_vars(Flush(TRUE, FALSE)) /\ WF_vars(Purge) /\ WF_vars(\E e \in Decoys : EmitDecoy(e))
Spec == Init /\ [][Next]_vars
FairSpec == Spec /\ Timers

-----------------------------------------------------------------------------
(* Properties.                                                             *)

(* An enrolment session is completed at most once, whatever was in memory  *)
(* only when the process died.                                             *)
HandshakesOnce == \A t \in Tokens : joined[t] <= 1

(* The view key an account got last is the one that attests.               *)
NewestKeyAttests ==
  \A a \in Accounts : up /\ issued[a] # 0 => \A k \in 1..MaxKeys : Attests(a, k) <=> k = issued[a]

(* What a report has shown stays released: no crash takes a transfer back  *)
(* behind a report.                                                        *)
ReportsStand == up => reported \subseteq mem.released

DeskHolds == HandshakesOnce /\ NewestKeyAttests /\ ReportsStand

(* While the process stays up, no due transfer stays behind, no old log    *)
(* entry stays, and no expired session stays on the disk, for which the    *)
(* purge in memory needs the save of another timer.                        *)
TimersMoveOn ==
  /\ []<>(up => mem.queued \intersect due = {})
  /\ []<>(up => disk.logs \intersect old = {})
  /\ []<>(up => disk.sessions \intersect lapsed = {})
===============================================================================
