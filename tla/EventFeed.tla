----------------------------- MODULE EventFeed ------------------------------
(***************************************************************************)
(* How a page follows an agent run (GET /agent/runs/{id}/events): the log  *)
(* of the run so far and then, from a broadcast channel, what it goes on   *)
(* to say, up to the event that ends the run (agent_events,                *)
(* async_stream_like and LiveRun::emit).                                   *)
(*                                                                         *)
(* Two tasks speak for a run: its own, and the Stop handler, which aborts  *)
(* the first at its next await.  An event is a number and what it is: a    *)
(* step, the end of the run, or a piece of text that is shown live and     *)
(* never logged.                                                           *)
(*                                                                         *)
(* A definition named ..._Wrong is the one after it with one mistake; no   *)
(* specification uses it.                                                  *)
(***************************************************************************)
EXTENDS Naturals, Sequences, SequencesExt, FiniteSets

CONSTANTS
    Capacity,       \* of the broadcast channel: 1024
    MaxEvents       \* bound: events of one run

Nothing == [n |-> 0, is |-> "nothing"]

\* sent: what each task has logged and not broadcast; feed: the follower is
\* away, live or done; queue: its receiver; order: the broadcasts so far;
\* open: what was between log and broadcast when it began to follow.
New == [log |-> <<>>, sent |-> [run |-> Nothing, stop |-> Nothing], next |-> 1,
        stopping |-> "no", gone |-> FALSE, order |-> <<>>,
        feed |-> "away", queue |-> <<>>, shown |-> <<>>, lagged |-> FALSE, open |-> {}]

Over(events) == \E i \in DOMAIN events : events[i].is = "over"
RunIsOver(s) == s.log # <<>> /\ Last(s.log).is = "over"          \* LiveRun::state

-----------------------------------------------------------------------------
\* emit: the log under its lock, and then the channel.
Log(s, who, is) ==
    LET event == [n |-> s.next, is |-> is]
    IN [s EXCEPT !.log = Append(@, event), !.sent[who] = event, !.next = @ + 1]

\* The channel drops its oldest event for a receiver that is behind.
Queued(s, event) ==
    LET queue == Append(s.queue, event)
    IN IF s.feed # "live" THEN s
       ELSE IF Len(queue) <= Capacity THEN [s EXCEPT !.queue = queue]
       ELSE [s EXCEPT !.queue = Tail(queue), !.lagged = TRUE]
Broadcast(s, who) ==
    [Queued(s, s.sent[who]) EXCEPT !.sent[who] = Nothing, !.order = Append(@, s.sent[who].n)]

\* emit_live
Show(s) == [Queued(s, [n |-> s.next, is |-> "text"]) EXCEPT !.next = @ + 1, !.order = Append(@, s.next)]

\* The run's task; once it has ended it says no more, and once it has been
\* stopped at most what it says before its next await: one event here.
RunSpeaks(s) ==
    IF s.gone \/ s.sent.run # Nothing \/ s.next > MaxEvents THEN {}
    ELSE LET stopped == [s EXCEPT !.gone = @ \/ s.stopping = "said"]
         IN {Log(stopped, "run", "step"), Show(stopped), [Log(s, "run", "over") EXCEPT !.gone = TRUE]}

\* agent_stop: the state is read, the task told to stop and the end logged,
\* one after the other.
StopSpeaks(s) ==
    (IF s.stopping = "no" /\ ~RunIsOver(s) THEN {[s EXCEPT !.stopping = "judged"]} ELSE {})
    \union (IF s.stopping = "judged" /\ s.next <= MaxEvents
            THEN {[Log(s, "stop", "over") EXCEPT !.stopping = "said"]} ELSE {})
    \union (IF s.stopping # "no" /\ s.sent.run = Nothing THEN {[s EXCEPT !.gone = TRUE]} ELSE {})

\* agent_events: the log and a receiver, both under the lock of the log.  A
\* log with an end in it is all there is to show.
Seen_Wrong(s) == RunIsOver(s)

Seen(s) == Over(s.log)
Follow(s) ==
    IF s.feed # "away" THEN {}
    ELSE {[s EXCEPT !.feed = IF Seen(s) THEN "done" ELSE "live", !.shown = s.log,
                    !.open = {s.sent[who].n : who \in {"run", "stop"}} \ {0}]}

Receive(s) ==
    IF s.feed # "live" \/ s.queue = <<>> THEN {}
    ELSE {[s EXCEPT !.shown = Append(@, Head(s.queue)), !.queue = Tail(@),
                    !.feed = IF Head(s.queue).is = "over" THEN "done" ELSE @]}

Next(s) ==
    RunSpeaks(s) \union StopSpeaks(s) \union Follow(s) \union Receive(s)
    \union {Broadcast(s, who) : who \in {who \in {"run", "stop"} : s.sent[who] # Nothing}}

-----------------------------------------------------------------------------
Shown(s) == {s.shown[i].n : i \in DOMAIN s.shown}
Place(s, n) == CHOOSE i \in DOMAIN s.order : s.order[i] = n

(* A follower that has not fallen behind has been shown every step logged    *)
(* before the end it was shown, unless the two tasks spoke at once and the   *)
(* end was broadcast first.                                                  *)
NothingIsMissing(s) ==
    s.feed = "done" /\ ~s.lagged =>
        LET end == CHOOSE i \in DOMAIN s.shown :
                      s.shown[i].is = "over" /\ \A j \in 1..i - 1 : s.shown[j].is # "over"
            n == s.shown[end].n
        IN \A i \in DOMAIN s.log :
              s.log[i].n < n /\ s.log[i].n \notin Shown(s) =>
                  s.log[i].n \notin Range(s.order) \/ Place(s, s.log[i].n) > Place(s, n)

(* Nobody waits for an end that has been said: while a follower still waits  *)
(* and the run is over, the end is in its queue or on its way there.         *)
EndArrives(s) ==
    s.feed = "live" /\ Over(s.log) => Over(s.queue) \/ s.sent.run.is = "over" \/ s.sent.stop.is = "over"

(* An event is shown twice only if it was between the log and the channel    *)
(* when the page began to follow.                                            *)
RepeatsAreKnown(s) ==
    \A i, j \in DOMAIN s.shown : i < j /\ s.shown[i].n = s.shown[j].n => s.shown[i].n \in s.open

FeedHolds(s) == NothingIsMissing(s) /\ EndArrives(s) /\ RepeatsAreKnown(s)
=============================================================================
