------------------------------ MODULE LiveCandles ------------------------------
(***************************************************************************)
(* Candles of one symbol and interval (live_ohlcv.py): two feeds, each     *)
(* behind an exact entry in Redis per period asked for, a latest entry for *)
(* whatever came last, and files that are named by the window of the       *)
(* request.  A call of a feed takes time, so callers overtake each other.  *)
(*                                                                         *)
(* Rows are the feed and period they are of and the moment of their last   *)
(* bar (asOf).  A file is found by its name only while its window ends     *)
(* now, and later as the newest one: Tick forgets the names.               *)
(* The three writes of a reply are one step, as its callers share no rows  *)
(* before that; caches are on, as every caller leaves them.                *)
(***************************************************************************)
EXTENDS Integers, FiniteSets

CONSTANTS Callers,
          Periods,
          Asks,       \* what callers ask for: <<caller, "YAHOO", "DHAN" or "AUTO", period, forced>>
          RedisTtl,   \* REDIS_CANDLE_TTL_SECONDS
          MaxCall,    \* the longest a call of a feed takes
          Horizon,    \* bound of the clock
          MaxAsks     \* bound of what a caller asks for

ASSUME CandlesAssumption ==
  /\ RedisTtl \in Nat \ {0} /\ MaxCall \in Nat
  /\ Asks \subseteq Callers \X {"YAHOO", "DHAN", "AUTO"} \X Periods \X BOOLEAN

VARIABLES now,      \* the clock
          exact,    \* per feed and period: the Redis entry, a set of at most one
          latest,   \* per feed: the Redis entry of the last rows
          saved,    \* per feed: the candle files whose window ends now, and the rows of the newest
          calls     \* per caller: its fetch_live_ohlcv

candleVars == <<now, exact, latest, saved, calls>>

Feeds == {"YAHOO", "DHAN"}
NotCalled == [phase |-> "done", want |-> "AUTO", feed |-> "YAHOO", period |-> 0, force |-> FALSE,
              began |-> 0, asked |-> 0, stale |-> {}, how |-> "empty", rows |-> {}, served |-> 0]

CandlesInit ==
  /\ now = 0
  /\ exact = [key \in Feeds \X Periods |-> {}]
  /\ latest = [feed \in Feeds |-> {}]
  /\ saved = [feed \in Feeds |-> [files |-> {}, newest |-> {}]]
  /\ calls = [c \in Callers |-> NotCalled]

-----------------------------------------------------------------------------
(* The caches. *)

Kept(entries) == {e.rows : e \in {x \in entries : now < x.until}}
Entry(rows) == {[rows |-> rows, until |-> now + RedisTtl]}

NewestFile(feed) == saved[feed].newest
Stale(feed) == IF Kept(latest[feed]) # {} THEN Kept(latest[feed]) ELSE NewestFile(feed)

\* The file of the same period whose window ends at this very moment.
OnFile(feed, period) ==
  {file.rows : file \in {x \in saved[feed].files : x.period = period}}

InRedis(feed, period) == Kept(exact[<<feed, period>>])

KeepInRedis(feed, period, rows) ==
  /\ exact' = [exact EXCEPT ![<<feed, period>>] = Entry(rows)]
  /\ latest' = [latest EXCEPT ![feed] = Entry(rows)]

\* A file of the same name is overwritten, and is the newest.
Filed(feed, period, end, rows) ==
  [ newest |-> {rows},
    files |-> IF end # now THEN saved[feed].files
              ELSE {x \in saved[feed].files : x.period # period} \cup {[period |-> period, rows |-> rows]} ]

-----------------------------------------------------------------------------
(* A caller. *)

Answered(call, how, rows) ==
  [NotCalled EXCEPT !.asked = call.asked, !.want = call.want, !.period = call.period, !.how = how, !.rows = rows, !.served = now]
Answer(c, call, how, rows) == calls' = [calls EXCEPT ![c] = Answered(call, how, rows)]

\* A cached answer, unless a fresh one is forced; else the call of the feed,
\* with the rows to fall back on read before it.
StartOn(c, asked, feed) ==
  LET call == [asked EXCEPT !.feed = feed]
      cached == IF call.force THEN {} ELSE InRedis(feed, call.period)
      filed == IF call.force THEN {} ELSE OnFile(feed, call.period)
  IN  \/ /\ \E rows \in cached : Answer(c, call, "exact", {rows})
         /\ UNCHANGED <<exact, latest, saved>>
      \/ /\ cached = {}
         /\ \E rows \in filed : Answer(c, call, "file", {rows}) /\ KeepInRedis(feed, call.period, rows)
         /\ UNCHANGED saved
      \/ /\ cached = {} /\ filed = {}
         /\ calls' = [calls EXCEPT ![c] = [call EXCEPT !.phase = "calling", !.began = now, !.stale = Stale(feed)]]
         /\ UNCHANGED <<exact, latest, saved>>

\* A symbol that the security map does not have fails before any cache is read.
StartOnDhan(c, asked) ==
  \/ StartOn(c, asked, "DHAN")
  \/ Answer(c, [asked EXCEPT !.feed = "DHAN"], "unmapped", {}) /\ UNCHANGED <<exact, latest, saved>>

Ask(c, want, period, force) ==
  /\ calls[c].phase = "done" /\ calls[c].asked < MaxAsks
  /\ LET asked == [NotCalled EXCEPT !.want = want, !.period = period, !.force = force, !.began = now,
                                   !.asked = calls[c].asked + 1]
     IN  IF want = "DHAN" THEN StartOnDhan(c, asked) ELSE StartOn(c, asked, "YAHOO")
  /\ UNCHANGED now

Calling(c) == calls[c].phase = "calling"

\* The reply has rows, whose last bar is of some moment of the call.
ReplyRows(c) ==
  /\ Calling(c)
  /\ \E asOf \in calls[c].began .. now :
       LET rows == [feed |-> calls[c].feed, period |-> calls[c].period, asOf |-> asOf]
       IN  /\ Answer(c, calls[c], "remote", {rows})
           /\ KeepInRedis(rows.feed, rows.period, rows)
           /\ saved' = [saved EXCEPT ![rows.feed] = Filed(rows.feed, rows.period, calls[c].began, rows)]
  /\ UNCHANGED now

\* What a failed call of the only feed answers: the rows cached before it; of
\* Yahoo, those of the file that may have been left for this; or the failure.
FallBack(c) ==
  \/ calls[c].stale # {} /\ Answer(c, calls[c], "stale", calls[c].stale)
  \/ /\ calls[c].stale = {} /\ calls[c].feed = "YAHOO"
     /\ Answer(c, calls[c], "csv", {[feed |-> "CSV", period |-> calls[c].period, asOf |-> 0]})
  \/ calls[c].stale = {} /\ Answer(c, calls[c], "failed", {})

\* Mutant: the rows fallen back on are cached again.
ReplyFailsKept(c) ==
  /\ Calling(c)
  /\ \E rows \in calls[c].stale : Answer(c, calls[c], "stale", {rows}) /\ KeepInRedis(calls[c].feed, calls[c].period, rows)
  /\ UNCHANGED <<now, saved>>

\* The call raises, or the reply is not valid: AUTO turns from Yahoo to Dhan,
\* whatever Yahoo had cached.
ReplyFails(c) ==
  /\ Calling(c)
  /\ IF calls[c].want = "AUTO" /\ calls[c].feed = "YAHOO" THEN StartOnDhan(c, calls[c])
     ELSE FallBack(c) /\ UNCHANGED <<exact, latest, saved>>
  /\ UNCHANGED now

\* The reply is valid and has no rows: of Yahoo as if it had failed, but for the
\* failure; of Dhan the answer, whatever is cached.
ReplyEmpty(c) ==
  /\ Calling(c)
  /\ IF calls[c].want = "AUTO" /\ calls[c].feed = "YAHOO" THEN StartOnDhan(c, calls[c])
     ELSE /\ IF calls[c].feed = "YAHOO" /\ calls[c].stale # {}
             THEN Answer(c, calls[c], "stale", calls[c].stale)
             ELSE \/ Answer(c, calls[c], "empty", {})
                  \/ calls[c].feed = "YAHOO" /\ FallBack(c) /\ calls'[c].how = "csv"
          /\ UNCHANGED <<exact, latest, saved>>
  /\ UNCHANGED now

Reply(c) == ReplyRows(c) \/ ReplyFails(c) \/ ReplyEmpty(c)

\* Time passes, but not while a call takes too long.
Tick ==
  /\ now < Horizon
  /\ \A c \in Callers : Calling(c) => now - calls[c].began < MaxCall
  /\ now' = now + 1
  /\ saved' = [feed \in Feeds |-> [saved[feed] EXCEPT !.files = {}]]
  /\ exact' = [key \in Feeds \X Periods |-> {e \in exact[key] : now + 1 < e.until}]
  /\ latest' = [feed \in Feeds |-> {e \in latest[feed] : now + 1 < e.until}]
  /\ UNCHANGED calls

\* Redis loses what it has.
RedisLost ==
  /\ exact' = [key \in Feeds \X Periods |-> {}] /\ latest' = [feed \in Feeds |-> {}]
  /\ exact' # exact
  /\ UNCHANGED <<now, saved, calls>>

CandlesNext ==
  \/ Tick
  \/ RedisLost
  \/ \E c \in Callers :
       \/ \E ask \in Asks : ask[1] = c /\ Ask(c, ask[2], ask[3], ask[4])
       \/ Reply(c)

-----------------------------------------------------------------------------
(* Properties. *)

Done(c) == calls[c].phase = "done" /\ calls[c].how # "empty"

\* An answer that is not marked as a fallback is of the period asked for, of the
\* provider asked for (with AUTO of either), and of a bar no longer ago than
\* Redis keeps rows and a call takes, however callers overlapped.
AnswersAreOwn ==
  \A c \in Callers : Done(c) /\ calls[c].how \in {"exact", "file", "remote"} =>
    \A rows \in calls[c].rows :
      /\ rows.period = calls[c].period
      /\ calls[c].want # "AUTO" => rows.feed = calls[c].want
      /\ calls[c].served - rows.asOf <= RedisTtl + MaxCall

\* A call of the only feed fails only if it began with nothing of the feed in
\* Redis: whatever is there by then was kept after it began.
FailedHadNothing ==
  [][\A c \in Callers :
       Calling(c) /\ calls'[c].how = "failed" =>
         \A entry \in latest[calls[c].feed] : entry.until - RedisTtl >= calls[c].began]_candleVars

\* Rows are replaced by older ones only if the calls that they came from
\* overlapped.
CachedNeverFarBack ==
  [][\A feed \in Feeds : \A old \in latest[feed], new \in latest'[feed] :
       new.rows.asOf >= old.rows.asOf - MaxCall]_candleVars
=============================================================================
