------------------------------ MODULE Progress ------------------------------
(***************************************************************************)
(* The components of Platform that start work others have to finish, with  *)
(* the fairness the code justifies. What fails, fails as in Platform. Weak *)
(* fairness: the code between two awaits runs on and a database or a       *)
(* provider answers or fails, the workers of a queue take every waiting    *)
(* job, Omise comes to a verdict. Strong fairness: a vendor whose recipient*)
(* is pending opens the store's page again, which asks Omise (no webhook   *)
(* is counted on: it is answered 200 whatever became of it), who was       *)
(* invited keeps trying the link, visitors keep coming, PostgreSQL hands a *)
(* lock to those who wait in turn, and the workers of the index, which     *)
(* share the slots with requests here, have a pool of their own            *)
(* (concurrency 2). Redis drops what has outlived its time and PostgreSQL  *)
(* finds a deadlock by themselves. Payouts are not among them: an event of *)
(* a transfer that is dropped need not come again, and nothing else asks.  *)
(***************************************************************************)
EXTENDS Platform

LiveInit ==
    /\ part \in {"teamLive", "recipients", "webhooksRetry", "embeddingsRetry", "notifyLive",
                "settingsLive", "showcaseLive", "limitsLive"}
    /\ Init

(* A step of the component in play, which leaves the unused cells alone.   *)
OfTeam(A) == part = "teamLive" /\ A /\ UNCHANGED rest6
OfRecipients(A) == part = "recipients" /\ A /\ UNCHANGED rest5
OfWebhooks(A) == part = "webhooksRetry" /\ A /\ UNCHANGED rest10
OfEmbeddings(A) == part = "embeddingsRetry" /\ A /\ UNCHANGED rest5
OfNotify(A) == part = "notifyLive" /\ A /\ UNCHANGED rest6
OfSettings(A) == part = "settingsLive" /\ A /\ UNCHANGED rest8
OfShowcase(A) == part = "showcaseLive" /\ A /\ UNCHANGED rest5
OfLimits(A) == part = "limitsLive" /\ A /\ UNCHANGED rest8

(* Requests in flight and queues go on.                                    *)
GoOn(r) ==
    \/ OfTeam(r \in OneSlot /\ TeamLive!Finish(r))
    \/ OfRecipients(r \in OneSlot /\ Recipients!Finish(r))
    \/ OfWebhooks(r \in OneSlot /\ WebhooksRetry!Continue(r))
    \/ OfEmbeddings(EmbeddingsRetry!Enqueue(r))
    \/ OfNotify(NotifyLive!Continue(r))
    \/ OfSettings(SettingsLive!Step(r))
    \/ OfShowcase(ShowcaseLive!Continue(r))
    \/ OfLimits(LimitsLive!expire(r))

(* Omise decides on recipient k; the queue makes delivery k; Redis drops a *)
(* copy or a counter.                                                      *)
ServiceMoves(k) ==
    \/ OfRecipients(Recipients!Verify(k))
    \/ OfWebhooks(WebhooksRetry!Deliver(k, "s1"))
    \/ OfSettings(SettingsLive!Expire("maintenance"))
    \/ OfLimits(LimitsLive!WindowEnds)

(* What happens again until it worked: a look at the store's page, the     *)
(* link of an invitation, a job of the index. A visitor reads whether the  *)
(* storefront is closed; a request waits for a row.                        *)
TriedAgain(k) ==
    \/ OfRecipients(Recipients!refreshOmiseRecipientStatus("r1"))
    \/ OfTeam(TeamLive!TryAsNewUser(k))

TriedAgainBy(r) ==
    \/ OfEmbeddings(EmbeddingsRetry!Work(r))
    \/ OfSettings(SettingsLive!get(r, "maintenance"))
    \/ OfShowcase(ShowcaseLive!TakeRow(r))

FairSpec ==
    /\ LiveInit /\ [][Next]_vars
    /\ \A r \in TwoSlots : WF_vars(GoOn(r)) /\ SF_vars(TriedAgainBy(r))
    /\ \A k \in 1 .. 2 : WF_vars(ServiceMoves(k)) /\ SF_vars(TriedAgain(k))
    /\ \A k \in 1 .. 2 : SF_vars(OfTeam(TeamLive!TryAsMember(k)))

Slot(k) == IF k = 1 THEN "r1" ELSE "r2"

(* Work number k of the component in play is under way; it is over.        *)
Started(k) ==
    \/ part = "teamLive" /\ TeamLive!Invited(k)
    \/ part = "recipients" /\ Recipients!Pending
    \/ part = "webhooksRetry" /\ WebhooksRetry!Underway(k, "s1")
    \/ part = "embeddingsRetry" /\ EmbeddingsRetry!Underway("p1")
    \/ part = "notifyLive" /\ NotifyLive!Underway(Slot(k))
    \/ part = "settingsLive" /\ SettingsLive!Overdue
    \/ part = "showcaseLive" /\ ShowcaseLive!Reordering(Slot(k))
    \/ part = "limitsLive" /\ LimitsLive!UsedUp

Ended(k) ==
    \/ part = "teamLive" /\ TeamLive!InOrOver(k)
    \/ part = "recipients" /\ ~Recipients!Pending
    \/ part = "webhooksRetry" /\ ~WebhooksRetry!Underway(k, "s1")
    \/ part = "embeddingsRetry" /\ ~EmbeddingsRetry!Underway("p1")
    \/ part = "notifyLive" /\ ~NotifyLive!Underway(Slot(k))
    \/ part = "settingsLive" /\ ~SettingsLive!Overdue
    \/ part = "showcaseLive" /\ ~ShowcaseLive!Reordering(Slot(k))
    \/ part = "limitsLive" /\ ~LimitsLive!UsedUp

(* What was started ends: who was invited gets in even if a process died   *)
(* half way, a recipient does not stay pending, and events, deliveries and *)
(* index jobs end whatever fails; a closing whose time is over ends, of    *)
(* two reorderings in opposite order both end, and a caller who used up a  *)
(* window is let in again.                                                 *)
WorkEnds == \A k \in 1 .. 2 : Started(k) ~> Ended(k)
=============================================================================
