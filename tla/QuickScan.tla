----------------------------- MODULE QuickScan -----------------------------
(***************************************************************************)
(* The quick scan of app.py: search_stream starts a daemon thread          *)
(* (_run_scan) that scans the usernames in turn, hands every event to the  *)
(* loop's queue and posts `done` and a sentinel at its end; the response   *)
(* takes events off the queue until it meets the sentinel or the client is *)
(* gone.  On Postgres the store of site health lets the driver's errors    *)
(* through: its guards name sqlite3.Error and OSError.                     *)
(***************************************************************************)
EXTENDS Naturals, Sequences, SequencesExt, FiniteSets

CONSTANTS Names,        \* the usernames asked for, a sequence
          Sites,        \* the sites left after the circuits
          Postgres      \* which database serves the application

ASSUME QuickAssumption ==
  Names \in Seq(STRING) /\ IsFiniteSet(Sites) /\ Postgres \in BOOLEAN

VARIABLES thread,       \* where _run_scan is
          user,         \* index of the username it scans
          open,         \* sites of this pass not reported yet
          claimed,      \* results_raw: sites the first pass found
          failed,       \* sites whose failure may be retried
          posts,        \* events on their way to the response
          summary,      \* usernames whose run is in the summary
          history,      \* rows of `runs`: <<username, sites found>>
          response,     \* "streaming", "ended" (sentinel met), "gone"
          sent          \* history: events the client received

quickVars == <<thread, user, open, claimed, failed, posts, summary, history, response, sent>>

QuickInit ==
  /\ thread = "setup" /\ user = 1
  /\ open = {} /\ claimed = {} /\ failed = {}
  /\ posts = <<>> /\ summary = {} /\ history = {}
  /\ response = "streaming" /\ sent = {}

Event(k) == <<k, Names[user], "">>
Post(es) == posts' = posts \o es
Sentinel == <<"sentinel", "", "">>

(* RunRouter(), filter_sites and announce_skipped come before the try: an  *)
(* error the store does not guard ends the thread then and there.          *)
Setup ==
  /\ thread = "setup"
  /\ \/ thread' = "next"
     \/ Postgres /\ thread' = "dead"
  /\ UNCHANGED <<user, open, claimed, failed, posts, summary, history, response, sent>>

UserStart ==
  /\ thread = "next" /\ user <= Len(Names)
  /\ thread' = "scanning"
  /\ open' = Sites /\ claimed' = {} /\ failed' = {}
  /\ Post(<<Event("user_start")>>)
  /\ UNCHANGED <<user, summary, history, response, sent>>

(* QueueNotify.update, wrapped to count progress: the site was claimed,    *)
(* free, or failed.  Progress is posted for every site and left out here.  *)
Update(s) ==
  /\ thread \in {"scanning", "retrying"} /\ s \in open
  /\ open' = open \ {s}
  /\ \/ /\ Post(<< <<"found", Names[user], s>> >>)
        /\ claimed' = IF thread = "scanning" THEN claimed \cup {s} ELSE claimed
        /\ UNCHANGED failed
     \/ UNCHANGED <<posts, claimed, failed>>
     \/ /\ Post(<< <<"error", Names[user], s>> >>)
        /\ failed' \in {failed, failed \cup {s}}
        /\ UNCHANGED claimed
  /\ UNCHANGED <<thread, user, summary, history, response, sent>>

\* fault: the run is entered in the summary before it is saved
PassOverSummed ==
  /\ thread = "scanning" /\ open = {}
  /\ summary' = summary \cup {<<Names[user], Cardinality(claimed)>>}
  /\ IF failed = {}
     THEN thread' = "saving" /\ UNCHANGED <<open, posts>>
     ELSE /\ thread' = "retrying" /\ open' = failed
          /\ Post(<<Event("retry")>>)
  /\ UNCHANGED <<user, claimed, failed, history, response, sent>>

(* drain_transient: what failed in passing is scanned once more, together. *)
PassOver ==
  /\ thread = "scanning" /\ open = {}
  /\ IF failed = {}
     THEN thread' = "saving" /\ UNCHANGED <<open, posts>>
     ELSE /\ thread' = "retrying" /\ open' = failed
          /\ Post(<<Event("retry")>>)
  /\ UNCHANGED <<user, claimed, failed, summary, history, response, sent>>

(* The retry is over, or raised, which is logged and no more. *)
RetryOver ==
  /\ thread = "retrying"
  /\ thread' = "saving"
  /\ UNCHANGED <<user, open, claimed, failed, posts, summary, history, response, sent>>

Save ==
  /\ thread = "saving"
  /\ history' = history \cup {<<Names[user], claimed>>}
  /\ summary' = summary \cup {<<Names[user], Cardinality(claimed)>>}
  /\ Post(<<Event("user_done")>>)
  /\ user' = user + 1 /\ thread' = "next"
  /\ UNCHANGED <<open, claimed, failed, response, sent>>

(* sherlock() or save_run raises: the client is told, and `finally` runs.  *)
Raise ==
  /\ thread \in {"scanning", "saving"}
  /\ thread' = "finally"
  /\ Post(<< <<"fatal", "", "">> >>)
  /\ UNCHANGED <<user, open, claimed, failed, summary, history, response, sent>>

AllScanned ==
  /\ thread = "next" /\ user > Len(Names)
  /\ thread' = "finally"
  /\ UNCHANGED <<user, open, claimed, failed, posts, summary, history, response, sent>>

(* finish() writes the observations; again an unguarded error ends the     *)
(* thread, here before `done` and the sentinel.                            *)
Finally ==
  /\ thread = "finally"
  /\ \/ thread' = "over" /\ Post(<< <<"done", "", summary>>, Sentinel >>)
     \/ Postgres /\ thread' = "dead" /\ UNCHANGED posts
  /\ UNCHANGED <<user, open, claimed, failed, summary, history, response, sent>>

(* event_gen takes one event; a wait of 15 s without one looks whether the *)
(* client is still there, and sends a keepalive if so.                     *)
Take ==
  /\ response = "streaming" /\ posts # <<>>
  /\ posts' = Tail(posts)
  /\ IF Head(posts) = Sentinel
     THEN response' = "ended" /\ UNCHANGED sent
     ELSE sent' = sent \cup {Head(posts)} /\ UNCHANGED response
  /\ UNCHANGED <<thread, user, open, claimed, failed, summary, history>>

Disconnect ==
  /\ response = "streaming"
  /\ response' = "gone"
  /\ UNCHANGED <<thread, user, open, claimed, failed, posts, summary, history, sent>>

QuickNext ==
  \/ Setup \/ UserStart \/ PassOver \/ RetryOver \/ Save \/ Raise \/ AllScanned \/ Finally
  \/ \E s \in Sites : Update(s)
  \/ Take \/ Disconnect

QuickSpec == QuickInit /\ [][QuickNext]_quickVars

----------------------------------------------------------------------------
(* However the thread ends, the response it feeds is told to end; and one  *)
(* that ended gave the client all of it: a `done` whose figures are the    *)
(* rows that were saved, every find of those rows, and the end of every    *)
(* username that was begun unless it also said `fatal`.                    *)
ResponseIsWhole ==
  /\ thread \in {"over", "dead"} /\ response = "streaming" => Contains(posts, Sentinel)
  /\ response = "ended" =>
    /\ \E e \in sent : e[1] = "done"
                       /\ e[3] = {<<h[1], Cardinality(h[2])>> : h \in history}
    /\ \A h \in history : \A s \in h[2] : <<"found", h[1], s>> \in sent
    /\ \/ \E e \in sent : e[1] = "fatal"
       \/ \A i \in 1..Len(Names) : <<"user_done", Names[i], "">> \in sent

(* README: a past run reloads its results, and /api/history/{id} has the   *)
(* "full stored results of one run": what the client was told is found is  *)
(* in the row of that username.                                            *)
FoundIsStored ==
  \A h \in history : \A s \in Sites : <<"found", h[1], s>> \in sent => s \in h[2]
=============================================================================
