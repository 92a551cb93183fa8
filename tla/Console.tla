------------------------------- MODULE Console -------------------------------
(***************************************************************************)
(* The terminal interface (netfusion-tui/src/main.rs and tui/app.rs) on    *)
(* its connection to the daemon (ipc/client.rs, module IpcServer).         *)
(*                                                                         *)
(* The fetcher task asks the daemon for four things in turn and sends what *)
(* it gets over a bounded channel.  The main loop is one select! over that *)
(* channel, a keyboard poll and the render tick.  A key that the user      *)
(* presses may reach the loop at any moment or never: the thread of a poll *)
(* whose future select! dropped reads keys that nobody is told of.         *)
(***************************************************************************)
EXTENDS IpcServer

CONSTANTS
    Keys,       \* the keys the user presses, among AllKeys
    ChanCap     \* capacity of the channel of updates (4 in the code)

\* The keys that scroll the log on its tab.
ScrollKeys == {"k", "j", "PageUp", "PageDown", "g", "G"}

AllKeys == {"q", "l", "h", "r"} \cup ScrollKeys

ASSUME ConsoleAssumption ==
    /\ Keys \subseteq AllKeys
    /\ ChanCap \in Nat \ {0}

VARIABLES
    fetch,  \* the fetcher: the await it is at, the request, the update to send
    chan,   \* the channel of updates
    app     \* App, with the running flag of the main loop

tuiVars == <<fetch, chan, app>>
vars == <<serverVars, tuiVars>>

Updates ==
    [kind : {"status", "bonds", "tunnels", "error", "loading", "loaded"}, list : {0}]
        \cup [kind : {"interfaces"}, list : 0..MaxIfaces]

Update(kind, list) == [kind |-> kind, list |-> list]
Nothing == Update("none", 0)

Apps ==
    [running : BOOLEAN, tab : 0..3, loading : BOOLEAN, list : 0..MaxIfaces,
     sel : 0..MaxIfaces, dirty : BOOLEAN]

\* Every part of the state stays in its range; the channel within its capacity.
TypeOK ==
    /\ ServerTypeOK
    /\ fetch \in [at : {"off", "idle", "begin", "ask", "wait", "send", "end"},
                  i : 1..Len(Requests), out : Updates \cup {Nothing}]
    /\ chan \in Seq(Updates) /\ Len(chan) <= ChanCap
    /\ app \in Apps

\* main() up to its loop: without a daemon there is no fetcher.
Init ==
    /\ ServerInit
    /\ fetch = [at |-> IF conn = "open" THEN "idle" ELSE "off", i |-> 1, out |-> Nothing]
    /\ chan = << >>
    /\ app = [running |-> TRUE, tab |-> 0, loading |-> TRUE, list |-> 0, sel |-> 0, dirty |-> TRUE]

------------------------------------------------------------------------------
(* The fetcher *)

\* The fetcher lives until the main loop has ended and dropped its receiver.
Fetcher(at) == app.running /\ fetch.at = at

Send(update) ==
    /\ Len(chan) < ChanCap
    /\ chan' = Append(chan, update)

\* interval.tick() fires.
TickFetch ==
    /\ Fetcher("idle")
    /\ fetch' = [fetch EXCEPT !.at = "begin"]
    /\ UNCHANGED <<serverVars, chan, app>>

BeginFetch ==
    /\ Fetcher("begin")
    /\ Send(Update("loading", 0))
    /\ fetch' = [fetch EXCEPT !.at = "ask", !.i = 1]
    /\ UNCHANGED <<serverVars, app>>

\* Where the fetcher stands once request i has come to its end: a failed request
\* for bonds or tunnels sends nothing.
After(i, out) ==
    [at |-> IF out # Nothing THEN "send" ELSE IF i = Len(Requests) THEN "end" ELSE "ask",
     i |-> IF out = Nothing /\ i < Len(Requests) THEN i + 1 ELSE i,
     out |-> out]

\* Mutant: a failed request ends the refresh without the final Loading(false).
Failed_Returns(i) == [at |-> "idle", i |-> 1, out |-> Nothing]

Failed(i) == After(i, IF Requests[i] \in {"status", "interfaces"} THEN Update("error", 0) ELSE Nothing)

\* The request is written; on a closed stream the write fails.
Ask ==
    /\ Fetcher("ask")
    /\ \/ /\ conn = "open"
          /\ req' = Requests[fetch.i]
          /\ fetch' = [fetch EXCEPT !.at = "wait"]
       \/ /\ conn = "closed"
          /\ req' = req
          /\ fetch' = Failed(fetch.i)
    /\ UNCHANGED <<up, ifaces, conn, resp, chan, app>>

\* The reply frame is read whole before it is decoded and its type compared.
Receive ==
    /\ Fetcher("wait")
    /\ resp # NoReply
    /\ resp' = NoReply
    /\ \/ /\ "ok" \in CodecResults
          /\ fetch' = IF resp.kind = Requests[fetch.i]
                      THEN After(fetch.i, Update(resp.kind, resp.list))
                      ELSE Failed(fetch.i)
       \/ /\ "fail" \in CodecResults
          /\ fetch' = Failed(fetch.i)
    /\ UNCHANGED <<up, ifaces, conn, req, chan, app>>

\* Mutant: the client gives up waiting and goes on with the next request.
Hangup_Timeout ==
    /\ Fetcher("wait")
    /\ fetch' = Failed(fetch.i)
    /\ UNCHANGED <<serverVars, chan, app>>

\* read_exact meets the end of the stream.
Hangup ==
    /\ Fetcher("wait")
    /\ resp = NoReply
    /\ conn = "closed"
    /\ fetch' = Failed(fetch.i)
    /\ UNCHANGED <<serverVars, chan, app>>

SendUpdate ==
    /\ Fetcher("send")
    /\ Send(fetch.out)
    /\ fetch' = After(fetch.i, Nothing)
    /\ UNCHANGED <<serverVars, app>>

EndFetch ==
    /\ Fetcher("end")
    /\ Send(Update("loaded", 0))
    /\ fetch' = [fetch EXCEPT !.at = "idle"]
    /\ UNCHANGED <<serverVars, app>>

------------------------------------------------------------------------------
(* The main loop *)

\* Mutant: the new list is stored and the selection left where it was.
ApplyInterfaces_NoClamp(a, list) ==
    [a EXCEPT !.list = list, !.dirty = TRUE]

\* apply_interfaces: a selection beyond the new list moves to its last row.
ApplyInterfaces(a, list) ==
    [a EXCEPT !.list = list,
              !.sel = IF @ < list THEN @ ELSE IF list > 0 THEN list - 1 ELSE 0,
              !.dirty = TRUE]

\* The kinds that only store what nobody here looks at: status, bonds, tunnels, error.
ApplyUpdate(a, u) ==
    CASE u.kind = "interfaces" -> ApplyInterfaces(a, u.list)
      [] u.kind \in {"loading", "loaded"} -> [a EXCEPT !.loading = u.kind = "loading", !.dirty = TRUE]
      [] OTHER -> [a EXCEPT !.dirty = TRUE]

\* next_tab and prev_tab.
Turn(a, by) == [a EXCEPT !.tab = (@ + by) % 4, !.dirty = TRUE]

\* Mutant: the selection moves without mark_dirty.
Select_Silent(a, row) == [a EXCEPT !.sel = row]

Select(a, row) == [a EXCEPT !.sel = row, !.dirty = TRUE]

\* r only clears App.error, which nothing draws.  Nothing fills the event buffer, so the
\* log's position stays 0 under every scroll, which marks dirty all the same.
AfterKey(a, k) ==
    CASE k = "q" -> [a EXCEPT !.running = FALSE]
      [] k = "l" -> Turn(a, 1)
      [] k = "h" -> Turn(a, 3)
      [] k = "k" /\ a.tab = 1 /\ a.sel > 0 -> Select(a, a.sel - 1)
      [] k = "j" /\ a.tab = 1 /\ a.sel + 1 < a.list -> Select(a, a.sel + 1)
      [] k \in ScrollKeys /\ a.tab = 3 -> [a EXCEPT !.dirty = TRUE]
      [] OTHER -> a

TakeUpdate ==
    /\ app.running
    /\ chan # << >>
    /\ app' = ApplyUpdate(app, Head(chan))
    /\ chan' = Tail(chan)
    /\ UNCHANGED <<serverVars, fetch>>

\* The poll of this iteration read a key.
TakeKey ==
    /\ app.running
    /\ \E k \in Keys : app' = AfterKey(app, k)
    /\ UNCHANGED <<serverVars, fetch, chan>>

\* The render tick: draws when dirty.
Render ==
    /\ app.running
    /\ app' = [app EXCEPT !.dirty = FALSE]
    /\ UNCHANGED <<serverVars, fetch, chan>>

FetchNext == TickFetch \/ BeginFetch \/ Ask \/ Receive \/ Hangup \/ SendUpdate \/ EndFetch

Next ==
    \/ ServerNext /\ UNCHANGED tuiVars
    \/ TickFetch
    \/ BeginFetch
    \/ Ask
    \/ Receive
    \/ Hangup
    \/ SendUpdate
    \/ EndFetch
    \/ TakeUpdate
    \/ TakeKey
    \/ Render

\* Tokio runs every task that is ready and select! picks among its ready branches at
\* random, so none of them waits for ever.  Nobody has to press a key, the daemon may
\* die or live, and nothing says which way a bincode call turns out.
Fairness ==
    /\ WF_vars(HandleRequest /\ UNCHANGED tuiVars)
    /\ WF_vars(FetchNext)
    /\ WF_vars(TakeUpdate)
    /\ WF_vars(Render)

Spec == Init /\ [][Next]_vars /\ Fairness

------------------------------------------------------------------------------

\* The selection points at a row of the list on display, however scans, refreshes
\* and the keys that move it interleave.
SelectionInList == app.sel < app.list \/ app.sel = 0

\* The stream carries no correlation: a reply is taken for the answer to whatever was
\* asked last, which it is only because one request is out at a time and none is
\* given up.
ReplyIsForRequest ==
    /\ req # "none" => fetch.at = "wait" /\ req = Requests[fetch.i]
    /\ resp # NoReply => fetch.at = "wait" /\ resp.kind = Requests[fetch.i] /\ req = "none"

\* The render tick draws only a dirty App: no handler changes what is on the screen
\* and leaves the flag down.
Visible == <<app.tab, app.loading, app.list, app.sel>>
NoSilentChange == [][Visible' # Visible => app'.dirty]_vars

\* The daemon dropped the request and will never answer it.
Unanswered == fetch.at = "wait" /\ req = "none" /\ resp = NoReply /\ conn = "open"

\* The loading mark goes away again, although the fetcher waits for room in the
\* channel, requests fail and the daemon dies in between; only a request the daemon
\* could not decode keeps it.
RefreshEnds ==
    app.loading /\ conn # "none" ~> ~app.loading \/ Unanswered \/ ~app.running

==============================================================================
