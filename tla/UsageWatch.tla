----------------------------- MODULE UsageWatch -----------------------------
(***************************************************************************)
(* The second half of a pass of reminder_loop in bot/main.py: the traffic  *)
(* of every subscription and the offers to those who never bought, in one  *)
(* database session; and first_connect_loop beside it.                     *)
(*                                                                         *)
(* What the loop changes on a subscription it has loaded stays in the      *)
(* session until somebody commits: the snapshot of the next subscription,  *)
(* a warning that is filed, an offer. What is left when the pass ends is   *)
(* gone. How much traffic there is, and who has bought something, is open  *)
(* whenever the loop asks.                                                 *)
(*                                                                         *)
(* Reminders has the first half. No name is declared in both, so that one  *)
(* module can speak of the whole pass.                                     *)
(***************************************************************************)
EXTENDS Naturals, FiniteSets

CONSTANTS
    NumSubs,     \* active subscriptions with a traffic limit, the oldest first
    Guests,      \* users who started the bot an hour ago
    Limit,       \* subscriptions first_connect_loop looks at in a pass
    Nobody,
    MaxMishaps   \* bound: failing sends and commits, deaths of the bot

Subs == 1..NumSubs

ASSUME WatchAssumption ==
    /\ NumSubs \in Nat /\ IsFiniteSet(Guests) /\ Subs \cap Guests = {}
    /\ Nobody \notin Subs \cup Guests
    /\ Limit \in Nat \ {0} /\ MaxMishaps \in Nat

VARIABLES
    checked,   \* subscriptions with last_usage_checked_at
    resting,   \* those whose security_last_alert_at is younger than six hours
    dirty,     \* changed in the session: <<subscription, "check" or "alert">>
    filed,     \* reminder_logs: those whose warning is filed
    connect,   \* per subscription: "unused", "used", "told" once the message
               \* has gone out, "noted" in first_connect_notified_at
    offered,   \* bot_events: guests with a no_purchase_offer
    at, ahead, cur,
    recent,    \* history: subscriptions alerted less than six hours ago
    lapsed,    \* history: those whose last alert was never committed
    said,      \* history: how often a one-time message was sent
    mishaps

stored    == <<checked, resting, filed, offered>>
pass      == <<at, ahead, cur>>
alerts    == <<recent, lapsed>>
watchVars == <<stored, dirty, connect, pass, alerts, said, mishaps>>

Messages == ({"warning", "welcome"} \X Subs) \cup ({"offer"} \X Guests)

Places == {"asleep", "usage", "compare", "alert", "limit", "warned", "offers", "offered"}

WatchTypeOK ==
    /\ {checked, resting, filed, recent, lapsed} \subseteq SUBSET Subs
    /\ offered \subseteq Guests
    /\ dirty \subseteq Subs \X {"check", "alert"}
    /\ connect \in [Subs -> {"unused", "used", "told", "noted"}]
    /\ at \in Places /\ ahead \subseteq Subs \cup Guests
    /\ cur \in Subs \cup Guests \cup {Nobody}
    /\ said \in [Messages -> 0..(MaxMishaps + 1)]
    /\ mishaps \in 0..MaxMishaps

WatchInit ==
    /\ checked = {} /\ resting = {} /\ dirty = {}
    /\ filed = {} /\ connect = [s \in Subs |-> "unused"] /\ offered = {}
    /\ at = "asleep" /\ ahead = {} /\ cur = Nobody
    /\ recent = {} /\ lapsed = {}
    /\ said = [m \in Messages |-> 0] /\ mishaps = 0

GoTo(next, who, rest) == at' = next /\ cur' = who /\ ahead' = rest

Say(what, who) == said' = [said EXCEPT ![<<what, who>>] = @ + 1]

\* Those with a change of kind what in the session.
Changed(what) == {s \in Subs: <<s, what>> \in dirty}

\* A commit writes what the session holds: a checkpoint, the time of an alert.
Commit ==
    /\ checked' = checked \cup Changed("check")
    /\ resting' = resting \cup Changed("alert")
    /\ dirty' = {}

-----------------------------------------------------------------------------
(* The users and the clock *)

FirstUse(s) ==
    /\ connect[s] = "unused"
    /\ connect' = [connect EXCEPT ![s] = "used"]
    /\ UNCHANGED <<stored, dirty, pass, alerts, said, mishaps>>

\* Six hours after an alert. The stored time is never later than the alert.
SixHours(s) ==
    /\ recent' = recent \ {s} /\ resting' = resting \ {s}
    /\ <<s, "alert">> \notin dirty
    /\ UNCHANGED <<checked, filed, offered, dirty, connect, pass, lapsed,
                   said, mishaps>>

-----------------------------------------------------------------------------
(* reminder_loop *)

ActiveFiniteSubs ==
    /\ at = "asleep"
    /\ GoTo("usage", Nobody, Subs)
    /\ UNCHANGED <<stored, dirty, connect, alerts, said, mishaps>>

\* The panel does not answer: the subscription is left out.
NoUsage(s) ==
    /\ at = "usage" /\ s \in ahead
    /\ GoTo("usage", Nobody, ahead \ {s})
    /\ UNCHANGED <<stored, dirty, connect, alerts, said, mishaps>>

\* The usage is read and the snapshot of the day is committed.
RecordUsageSnapshot(s) ==
    /\ at = "usage" /\ s \in ahead
    /\ GoTo("compare", s, ahead \ {s})
    /\ Commit
    /\ UNCHANGED <<filed, offered, connect, alerts, said, mishaps>>

\* Mutant: an alert without the cooldown.
CooldownIgnored(s) == s \in checked

CooldownOk(s) == s \in checked /\ s \notin resting

\* The traffic since the checkpoint may be a spike: at least 8 GB, and 20 GB an
\* hour.
Compare ==
    /\ at = "compare"
    /\ \/ CooldownOk(cur) /\ at' = "alert" /\ UNCHANGED dirty
       \/ at' = "limit" /\ dirty' = dirty \cup {<<cur, "check">>}
    /\ UNCHANGED <<stored, connect, ahead, cur, alerts, said, mishaps>>

SecurityAlert ==
    /\ at = "alert"
    /\ at' = "limit"
    /\ dirty' = dirty \cup {<<cur, "check">>, <<cur, "alert">>}
    /\ recent' = recent \cup {cur} /\ lapsed' = lapsed \ {cur}
    /\ UNCHANGED <<stored, connect, ahead, cur, said, mishaps>>

\* Telegram refuses the alert: it is logged.
AlertFails ==
    /\ at = "alert"
    /\ at' = "limit"
    /\ dirty' = dirty \cup {<<cur, "check">>}
    /\ UNCHANGED <<stored, connect, ahead, cur, alerts, said, mishaps>>

\* Telegram refuses the offer.
OfferFails(g) ==
    /\ at = "offers" /\ g \in ahead
    /\ GoTo("offers", Nobody, ahead \ {g})
    /\ UNCHANGED <<stored, dirty, connect, alerts, said, mishaps>>

\* Mutant: the markers are not looked at.
WarnedAlreadyNever(s) == FALSE

WarnedAlready(s) == s \in filed

\* The traffic has passed a threshold of its limit: a warning goes out.
TrafficLow ==
    /\ at = "limit" /\ ~WarnedAlready(cur)
    /\ GoTo("warned", cur, ahead) /\ Say("warning", cur)
    /\ UNCHANGED <<stored, dirty, connect, alerts, mishaps>>

\* It has not, there is no limit, the warning is filed or Telegram refuses it.
NoWarning ==
    /\ at = "limit"
    /\ GoTo("usage", Nobody, ahead)
    /\ UNCHANGED <<stored, dirty, connect, alerts, said, mishaps>>

MarkWarningSent ==
    /\ at = "warned"
    /\ GoTo("usage", Nobody, ahead)
    /\ filed' = filed \cup {cur}
    /\ Commit
    /\ UNCHANGED <<offered, connect, alerts, said, mishaps>>

\* Mutant: the event of the offer is not looked for.
UnconvertedOrOffered == Guests

\* Those who may be without a successful payment, and have no offer.
Unconverted == Guests \ offered

DueUnconvertedUsers ==
    /\ at = "usage" /\ ahead = {}
    /\ \E due \in SUBSET Unconverted: GoTo("offers", Nobody, due)
    /\ UNCHANGED <<stored, dirty, connect, alerts, said, mishaps>>

Offer(g) ==
    /\ at = "offers" /\ g \in ahead
    /\ GoTo("offered", g, ahead \ {g})
    /\ Say("offer", g)
    /\ UNCHANGED <<stored, dirty, connect, alerts, mishaps>>

LogOffer ==
    /\ at = "offered"
    /\ GoTo("offers", Nobody, ahead)
    /\ offered' = offered \cup {cur}
    /\ Commit
    /\ UNCHANGED <<filed, connect, alerts, said, mishaps>>

\* The session is closed: what it still holds is lost.
Close ==
    /\ GoTo("asleep", Nobody, {})
    /\ dirty' = {} /\ lapsed' = lapsed \cup Changed("alert")

EndSession ==
    /\ at = "offers" /\ ahead = {}
    /\ Close
    /\ UNCHANGED <<stored, connect, recent, said, mishaps>>

Mishap == mishaps < MaxMishaps /\ mishaps' = mishaps + 1

\* A commit of the pass fails. Whatever the session had loaded is expired, and
\* so the pass is over.
SessionFails ==
    /\ at # "asleep" /\ Mishap
    /\ Close
    /\ UNCHANGED <<stored, connect, recent, said>>

-----------------------------------------------------------------------------
(* first_connect_loop *)

\* Mutant: the oldest Limit subscriptions, noted or not.
BatchOfAll == {s \in Subs: s <= Limit}

\* The subscriptions of a pass: the oldest Limit that are not noted.
Batch == {s \in Subs: Cardinality({t \in 1..(s - 1): connect[t] # "noted"}) < Limit}

\* The subscriptions are taken one after the other.
Welcome(s) ==
    /\ connect[s] = "used" /\ s \in Batch
    /\ \A t \in Subs: connect[t] # "told"
    /\ connect' = [connect EXCEPT ![s] = "told"]
    /\ Say("welcome", s)
    /\ UNCHANGED <<stored, dirty, pass, alerts, mishaps>>

\* first_connect_notified_at and the event are committed together.
NoteWelcome(s) ==
    /\ connect[s] = "told"
    /\ connect' = [connect EXCEPT ![s] = "noted"]
    /\ UNCHANGED <<stored, dirty, pass, alerts, said, mishaps>>

\* What connect is without the changes of a session that is gone.
Forgotten == [s \in Subs |-> IF connect[s] = "told" THEN "used" ELSE connect[s]]

NoteFails ==
    /\ Forgotten # connect /\ Mishap
    /\ connect' = Forgotten
    /\ UNCHANGED <<stored, dirty, pass, alerts, said>>

\* The bot dies and is started again: both loops begin with a pass.
BotDies ==
    /\ Mishap
    /\ Close
    /\ connect' = Forgotten
    /\ UNCHANGED <<stored, recent, said>>

-----------------------------------------------------------------------------

ReminderLoop ==
    \/ ActiveFiniteSubs \/ Compare \/ SecurityAlert \/ AlertFails
    \/ TrafficLow \/ NoWarning \/ MarkWarningSent
    \/ DueUnconvertedUsers \/ LogOffer \/ EndSession \/ SessionFails
    \/ \E s \in Subs: NoUsage(s) \/ RecordUsageSnapshot(s)
    \/ \E g \in Guests: Offer(g) \/ OfferFails(g)

WatchNext ==
    \/ ReminderLoop \/ NoteFails \/ BotDies
    \/ \E s \in Subs: Welcome(s) \/ NoteWelcome(s)
    \/ \E s \in Subs: FirstUse(s) \/ SixHours(s)

WatchSpec == WatchInit /\ [][WatchNext]_watchVars

\* first_connect_loop runs as long as the bot does, and docker restarts it. No
\* fairness for Telegram's refusals: a refused welcome leaves no step behind.
FairWatchSpec ==
    WatchSpec /\ \A s \in Subs: WF_watchVars(Welcome(s)) /\ WF_watchVars(NoteWelcome(s))

-----------------------------------------------------------------------------
(* Properties *)

\* The sendings of a message, by their number, that another one followed.
Resent(what) ==
    {m \in Messages \X (1..(MaxMishaps + 1)): m[1][1] \in what /\ m[2] < said[m[1]]}

\* A traffic warning, an offer and the welcome are sent before they are filed.
\* Every one that is sent again has a fault of its own to blame; the two loops
\* can each lose one to the same death of the bot.
SaidOnce ==
    /\ Cardinality(Resent({"warning", "offer"})) <= mishaps
    /\ Cardinality(Resent({"welcome"})) <= mishaps

\* A second security alert within six hours of the first goes out only if the
\* session of the first one ended before anything was committed after it. A
\* fault can do that, and so can being the last subscription of a pass.
AlertsThrottled == at = "alert" => (cur \in recent => cur \in lapsed)

\* Whoever uses the VPN is welcomed, unless Limit older subscriptions are never
\* used and fill every pass of first_connect_loop.
UsersAreWelcomed ==
    \A s \in Subs:
        connect[s] = "used" ~>
            \/ connect[s] = "noted"
            \/ Cardinality({t \in 1..(s - 1): connect[t] = "unused"}) >= Limit
=============================================================================
