--------------------------- MODULE Console_proofs ---------------------------
(***************************************************************************)
(* Proofs about Console and IpcServer, for every number of interfaces,     *)
(* every capacity of the channel and every behaviour of the codec.         *)
(***************************************************************************)
EXTENDS Console, TLAPS

\* A request is on its way only while the stream is open, so a fetcher that gives up
\* on a closed stream leaves none behind.
ClosedStreamEmpty == conn # "open" => req = "none"

\* The fetcher stands at a send only with something to send.
SendsSomething == fetch.at = "send" => fetch.out # Nothing

\* The inductive invariant.
IInv ==
    /\ TypeOK
    /\ SelectionInList
    /\ ReplyIsForRequest
    /\ ClosedStreamEmpty
    /\ SendsSomething

Fetches ==
    [at : {"off", "idle", "begin", "ask", "wait", "send", "end"},
     i : 1..Len(Requests), out : Updates \cup {Nothing}]

------------------------------------------------------------------------------

\* The requests of a refresh, by number.
LEMMA FourRequests ==
    /\ Len(Requests) = 4 /\ DOMAIN Requests = 1..4
    /\ Requests[1] = "status" /\ Requests[2] = "interfaces"
    /\ Requests[3] = "bonds" /\ Requests[4] = "tunnels"
    /\ Kinds = {"status", "interfaces", "bonds", "tunnels"}
  <1>1. Len(Requests) = 4 /\ DOMAIN Requests = 1..4
    BY DEF Requests
  <1>2. /\ Requests[1] = "status" /\ Requests[2] = "interfaces"
        /\ Requests[3] = "bonds" /\ Requests[4] = "tunnels"
    BY DEF Requests
  <1>3. Kinds = {Requests[1], Requests[2], Requests[3], Requests[4]}
    BY <1>1 DEF Kinds
  <1> QED BY <1>1, <1>2, <1>3

\* What data_fetcher_loop does with the outcome of a request: it stands at a send
\* exactly when there is an update, and never at a wait.
LEMMA AfterProperties ==
    ASSUME NEW i \in 1..Len(Requests), NEW out \in Updates \cup {Nothing}
    PROVE  /\ After(i, out) \in Fetches
           /\ After(i, out).at # "wait"
           /\ After(i, out).at = "send" => After(i, out).out # Nothing
  BY FourRequests DEF After, Fetches

\* A failed request, whichever it was, is an outcome like the others.
LEMMA FailedProperties ==
    ASSUME NEW i \in 1..Len(Requests)
    PROVE  /\ Failed(i) \in Fetches
           /\ Failed(i).at # "wait"
           /\ Failed(i).at = "send" => Failed(i).out # Nothing
  <1>1. Update("error", 0) \in Updates
    BY DEF Update, Updates
  <1> QED BY <1>1, AfterProperties DEF Failed

\* Neither an update nor a key leaves the selection outside the list.
LEMMA AppProperties ==
    ASSUME NEW a \in Apps, a.sel < a.list \/ a.sel = 0
    PROVE  /\ \A u \in Updates : /\ ApplyUpdate(a, u) \in Apps
                                 /\ \/ ApplyUpdate(a, u).sel < ApplyUpdate(a, u).list
                                    \/ ApplyUpdate(a, u).sel = 0
           /\ \A k \in AllKeys : /\ AfterKey(a, k) \in Apps
                                 /\ \/ AfterKey(a, k).sel < AfterKey(a, k).list
                                    \/ AfterKey(a, k).sel = 0
  <1>0. MaxIfaces \in Nat
    BY IpcServerAssumption
  <1>1. ASSUME NEW list \in 0..MaxIfaces
        PROVE  /\ ApplyInterfaces(a, list) \in Apps
               /\ \/ ApplyInterfaces(a, list).sel < ApplyInterfaces(a, list).list
                  \/ ApplyInterfaces(a, list).sel = 0
    <2> DEFINE row == IF a.sel < list THEN a.sel ELSE IF list > 0 THEN list - 1 ELSE 0
    <2>1. row \in 0..MaxIfaces /\ (row < list \/ row = 0)
      BY <1>0 DEF Apps
    <2>2. ApplyInterfaces(a, list) = [a EXCEPT !.list = list, !.sel = row, !.dirty = TRUE]
      BY DEF ApplyInterfaces
    <2> HIDE DEF row
    <2> QED BY <2>1, <2>2 DEF Apps
  <1>2. ASSUME NEW u \in Updates
        PROVE  /\ ApplyUpdate(a, u) \in Apps
               /\ \/ ApplyUpdate(a, u).sel < ApplyUpdate(a, u).list
                  \/ ApplyUpdate(a, u).sel = 0
    <2>1. CASE u.kind = "interfaces"
      <3>1. u.list \in 0..MaxIfaces
        BY <2>1, <1>0 DEF Updates
      <3> QED BY <2>1, <3>1, <1>1 DEF ApplyUpdate
    <2>2. CASE u.kind # "interfaces"
      BY <2>2 DEF ApplyUpdate, Apps
    <2> QED BY <2>1, <2>2
  <1>3. ASSUME NEW k \in AllKeys
        PROVE  /\ AfterKey(a, k) \in Apps
               /\ \/ AfterKey(a, k).sel < AfterKey(a, k).list
                  \/ AfterKey(a, k).sel = 0
    <2>1. CASE k \in {"l", "h"}
      <3>1. (a.tab + 1) % 4 \in 0..3 /\ (a.tab + 3) % 4 \in 0..3
        BY DEF Apps
      <3> QED BY <2>1, <3>1 DEF AfterKey, Turn, Apps
    <2>2. CASE k = "q"
      BY <2>2 DEF AfterKey, Apps
    <2>3. CASE k = "k" /\ a.tab = 1 /\ a.sel > 0
      <3>1. AfterKey(a, k) = Select(a, a.sel - 1)
        BY <2>3 DEF AfterKey
      <3>2. a.sel - 1 \in 0..MaxIfaces /\ a.sel - 1 < a.list
        BY <1>0, <2>3 DEF Apps
      <3> QED BY <3>1, <3>2 DEF Select, Apps
    <2>4. CASE k = "j" /\ a.tab = 1 /\ a.sel + 1 < a.list
      <3>1. AfterKey(a, k) = Select(a, a.sel + 1)
        BY <2>4 DEF AfterKey
      <3>2. a.sel + 1 \in 0..MaxIfaces
        BY <1>0, <2>4 DEF Apps
      <3> QED BY <2>4, <3>1, <3>2 DEF Select, Apps
    <2>5. CASE k \in ScrollKeys /\ a.tab = 3
      <3>1. AfterKey(a, k) = [a EXCEPT !.dirty = TRUE]
        BY <2>5 DEF AfterKey, ScrollKeys
      <3> QED BY <3>1 DEF Apps
    <2>6. CASE /\ k \notin {"l", "h", "q"}
               /\ ~(k = "k" /\ a.tab = 1 /\ a.sel > 0)
               /\ ~(k = "j" /\ a.tab = 1 /\ a.sel + 1 < a.list)
               /\ ~(k \in ScrollKeys /\ a.tab = 3)
      BY <2>6 DEF AfterKey
    <2> QED BY <2>1, <2>2, <2>3, <2>4, <2>5, <2>6
  <1> QED BY <1>2, <1>3

\* The parts of the type invariant as the steps below need them.
LEMMA Types ==
    TypeOK <=> /\ ServerTypeOK
               /\ fetch \in Fetches
               /\ chan \in Seq(Updates) /\ Len(chan) <= ChanCap
               /\ app \in Apps
  BY DEF TypeOK, Fetches

\* A step of the daemon (handle_connection, the rescan, its exit) keeps the invariant.
LEMMA ServerInv ==
    ASSUME IInv, ServerNext, UNCHANGED tuiVars
    PROVE  IInv'
  <1>0. TypeOK /\ ServerTypeOK /\ ReplyIsForRequest /\ ClosedStreamEmpty
    BY DEF IInv, TypeOK
  <1>1. ServerTypeOK' /\ ReplyIsForRequest' /\ ClosedStreamEmpty'
    <2>1. CASE Rescan
      BY <1>0, <2>1 DEF Rescan, ServerTypeOK, ReplyIsForRequest, ClosedStreamEmpty, tuiVars
    <2>2. CASE Undecodable
      BY <1>0, <2>2 DEF Undecodable, RequestArrived, ServerTypeOK, ReplyIsForRequest,
         ClosedStreamEmpty, tuiVars
    <2>3. CASE Answer
      <3>1. req \in Kinds /\ fetch.at = "wait" /\ req = Requests[fetch.i]
        BY <1>0, <2>3 DEF Answer, RequestArrived, ServerTypeOK, ReplyIsForRequest
      <3>2. Reply(req) \in Replies /\ Reply(req).kind = req
        BY <1>0, <3>1 DEF Reply, Replies, ServerTypeOK
      <3> QED BY <1>0, <2>3, <3>1, <3>2 DEF Answer, RequestArrived, ServerTypeOK,
              ReplyIsForRequest, ClosedStreamEmpty, tuiVars
    <2>4. CASE Unencodable
      BY <1>0, <2>4 DEF Unencodable, RequestArrived, ServerTypeOK, ReplyIsForRequest,
         ClosedStreamEmpty, tuiVars
    <2>5. CASE DaemonExits
      BY <1>0, <2>5 DEF DaemonExits, ServerTypeOK, ReplyIsForRequest, ClosedStreamEmpty,
         tuiVars
    <2> QED BY <2>1, <2>2, <2>3, <2>4, <2>5 DEF ServerNext
  <1>2. TypeOK' /\ SelectionInList' /\ SendsSomething'
    BY <1>0, <1>1 DEF IInv, TypeOK, SelectionInList, SendsSomething, tuiVars
  <1> QED BY <1>1, <1>2 DEF IInv

\* What a send to the channel does: it stays within its capacity.
LEMMA SendProperties ==
    ASSUME TypeOK, NEW u \in Updates, Send(u)
    PROVE  chan' \in Seq(Updates) /\ Len(chan') <= ChanCap
  BY ConsoleAssumption DEF TypeOK, Send

\* A step of the fetcher (data_fetcher_loop and IpcClient::request) keeps the
\* invariant: it waits exactly while its request or the reply to it is on its way.
LEMMA FetchInv ==
    ASSUME IInv, FetchNext
    PROVE  IInv'
  <1>0. /\ TypeOK /\ ServerTypeOK /\ ReplyIsForRequest /\ ClosedStreamEmpty
        /\ SendsSomething /\ SelectionInList
        /\ fetch \in Fetches /\ fetch.i \in 1..Len(Requests)
        /\ chan \in Seq(Updates) /\ Len(chan) <= ChanCap /\ app \in Apps
    BY Types DEF IInv, Fetches
  <1>a. UNCHANGED <<up, ifaces, conn, app>>
    BY DEF FetchNext, TickFetch, BeginFetch, Ask, Receive, Hangup, SendUpdate, EndFetch,
       serverVars
  <1>b. SelectionInList'
    BY <1>0, <1>a DEF SelectionInList
  <1>1. CASE TickFetch
    <2>1. /\ fetch' = [fetch EXCEPT !.at = "begin"] /\ fetch.at = "idle"
          /\ UNCHANGED <<req, resp, chan>>
      BY <1>1 DEF TickFetch, Fetcher, serverVars
    <2> QED BY <1>0, <1>a, <1>b, <2>1 DEF IInv, TypeOK, Fetches, ServerTypeOK,
            ReplyIsForRequest, ClosedStreamEmpty, SendsSomething
  <1>2. CASE BeginFetch
    <2>1. /\ fetch' = [fetch EXCEPT !.at = "ask", !.i = 1] /\ fetch.at = "begin"
          /\ UNCHANGED <<req, resp>>
      BY <1>2 DEF BeginFetch, Fetcher, serverVars
    <2>2. chan' \in Seq(Updates) /\ Len(chan') <= ChanCap
      <3>1. Update("loading", 0) \in Updates
        BY DEF Update, Updates
      <3> QED BY <1>0, <1>2, <3>1, SendProperties DEF BeginFetch
    <2>3. fetch' \in Fetches
      <3>1. 1 \in 1..Len(Requests)
        BY FourRequests
      <3> QED BY <1>0, <2>1, <3>1 DEF Fetches
    <2> QED BY <1>0, <1>a, <1>b, <2>1, <2>2, <2>3 DEF IInv, TypeOK, Fetches, ServerTypeOK,
            ReplyIsForRequest, ClosedStreamEmpty, SendsSomething
  <1>3. CASE Ask
    <2>0. fetch.at = "ask" /\ req = "none" /\ resp = NoReply /\ UNCHANGED <<resp, chan>>
      BY <1>0, <1>3 DEF Ask, Fetcher, ReplyIsForRequest
    <2>1. CASE /\ conn = "open" /\ req' = Requests[fetch.i]
               /\ fetch' = [fetch EXCEPT !.at = "wait"]
      <3>1. fetch' \in Fetches /\ fetch'.at = "wait" /\ fetch'.i = fetch.i
        BY <1>0, <2>1 DEF Fetches
      <3>2. Requests[fetch.i] \in Kinds
        BY <1>0, FourRequests
      <3> QED BY <1>0, <1>a, <1>b, <2>0, <2>1, <3>1, <3>2 DEF IInv, TypeOK, Fetches,
              ServerTypeOK, ReplyIsForRequest, ClosedStreamEmpty, SendsSomething
    <2>2. CASE conn = "closed" /\ req' = req /\ fetch' = Failed(fetch.i)
      <3>1. fetch' \in Fetches /\ fetch'.at # "wait" /\ SendsSomething'
        BY <1>0, <2>2, FailedProperties DEF SendsSomething
      <3> QED BY <1>0, <1>a, <1>b, <2>0, <2>2, <3>1 DEF IInv, TypeOK, Fetches,
              ServerTypeOK, ReplyIsForRequest, ClosedStreamEmpty
    <2> QED BY <1>3, <2>1, <2>2 DEF Ask
  <1>4. CASE Receive
    <2>0. /\ resp # NoReply /\ resp \in Replies /\ req = "none" /\ resp' = NoReply
          /\ UNCHANGED <<req, chan>>
      BY <1>0, <1>4 DEF Receive, ReplyIsForRequest, ServerTypeOK
    <2>1. Update(resp.kind, resp.list) \in Updates
      BY <2>0, FourRequests DEF Update, Updates, Replies
    <2>2. fetch' \in Fetches /\ fetch'.at # "wait" /\ SendsSomething'
      BY <1>0, <1>4, <2>1, AfterProperties, FailedProperties DEF Receive, SendsSomething
    <2> QED BY <1>0, <1>a, <1>b, <2>0, <2>2 DEF IInv, TypeOK, Fetches, ServerTypeOK,
            ReplyIsForRequest, ClosedStreamEmpty
  <1>5. CASE Hangup
    <2>0. /\ resp = NoReply /\ conn = "closed" /\ req = "none"
          /\ UNCHANGED <<req, resp, chan>>
      BY <1>0, <1>5 DEF Hangup, ClosedStreamEmpty, serverVars
    <2>1. fetch' \in Fetches /\ fetch'.at # "wait" /\ SendsSomething'
      BY <1>0, <1>5, FailedProperties DEF Hangup, SendsSomething
    <2> QED BY <1>0, <1>a, <1>b, <2>0, <2>1 DEF IInv, TypeOK, Fetches, ServerTypeOK,
            ReplyIsForRequest, ClosedStreamEmpty
  <1>6. CASE SendUpdate
    <2>0. /\ fetch.at = "send" /\ req = "none" /\ resp = NoReply
          /\ UNCHANGED <<req, resp>>
      BY <1>0, <1>6 DEF SendUpdate, Fetcher, ReplyIsForRequest, serverVars
    <2>1. fetch.out \in Updates
      BY <1>0, <2>0 DEF SendsSomething, Fetches
    <2>2. chan' \in Seq(Updates) /\ Len(chan') <= ChanCap
      BY <1>0, <1>6, <2>1, SendProperties DEF SendUpdate
    <2>3. fetch' \in Fetches /\ fetch'.at # "wait" /\ SendsSomething'
      BY <1>0, <1>6, AfterProperties DEF SendUpdate, SendsSomething
    <2> QED BY <1>0, <1>a, <1>b, <2>0, <2>2, <2>3 DEF IInv, TypeOK, Fetches,
            ServerTypeOK, ReplyIsForRequest, ClosedStreamEmpty
  <1>7. CASE EndFetch
    <2>1. /\ fetch' = [fetch EXCEPT !.at = "idle"] /\ fetch.at = "end"
          /\ UNCHANGED <<req, resp>>
      BY <1>7 DEF EndFetch, Fetcher, serverVars
    <2>2. chan' \in Seq(Updates) /\ Len(chan') <= ChanCap
      <3>1. Update("loaded", 0) \in Updates
        BY DEF Update, Updates
      <3> QED BY <1>0, <1>7, <3>1, SendProperties DEF EndFetch
    <2>3. fetch' \in Fetches
      BY <1>0, <2>1 DEF Fetches
    <2> QED BY <1>0, <1>a, <1>b, <2>1, <2>2, <2>3 DEF IInv, TypeOK, Fetches, ServerTypeOK,
            ReplyIsForRequest, ClosedStreamEmpty, SendsSomething
  <1> QED BY <1>1, <1>2, <1>3, <1>4, <1>5, <1>6, <1>7 DEF FetchNext

\* A step of the main loop keeps the invariant.
LEMMA MainInv ==
    ASSUME IInv, TakeUpdate \/ TakeKey \/ Render
    PROVE  IInv'
  <1>0. /\ ServerTypeOK /\ fetch \in Fetches /\ app \in Apps
        /\ chan \in Seq(Updates) /\ Len(chan) <= ChanCap
        /\ app.sel < app.list \/ app.sel = 0
    BY Types DEF IInv, SelectionInList
  <1>1. UNCHANGED <<serverVars, fetch>>
    BY DEF TakeUpdate, TakeKey, Render
  <1>2. /\ app' \in Apps /\ SelectionInList'
        /\ chan' \in Seq(Updates) /\ Len(chan') <= ChanCap
    <2>1. CASE TakeUpdate
      <3>1. /\ Head(chan) \in Updates /\ Tail(chan) \in Seq(Updates)
            /\ Len(Tail(chan)) <= ChanCap
        BY <1>0, <2>1, ConsoleAssumption DEF TakeUpdate
      <3> QED BY <1>0, <2>1, <3>1, AppProperties DEF TakeUpdate, SelectionInList
    <2>2. CASE TakeKey
      <3>1. PICK k \in Keys : app' = AfterKey(app, k)
        BY <2>2 DEF TakeKey
      <3>2. k \in AllKeys /\ chan' = chan
        BY <2>2, ConsoleAssumption DEF TakeKey
      <3> QED BY <1>0, <3>1, <3>2, AppProperties DEF SelectionInList
    <2>3. CASE Render
      BY <1>0, <2>3 DEF Render, Apps, SelectionInList
    <2> QED BY <2>1, <2>2, <2>3
  <1>3. TypeOK'
    BY <1>0, <1>1, <1>2 DEF TypeOK, Fetches, ServerTypeOK, serverVars
  <1>4. ReplyIsForRequest' /\ ClosedStreamEmpty' /\ SendsSomething'
    BY <1>1 DEF IInv, ReplyIsForRequest, ClosedStreamEmpty, SendsSomething, serverVars
  <1> QED BY <1>2, <1>3, <1>4 DEF IInv

\* The invariant holds in every reachable state of the program and its daemon.
THEOREM Invariance == Spec => []IInv
  <1>1. Init => IInv
    <2> SUFFICES ASSUME Init PROVE IInv
      OBVIOUS
    <2>1. ServerTypeOK /\ req = "none" /\ resp = NoReply
      BY DEF Init, ServerInit, ServerTypeOK
    <2>2. fetch \in Fetches /\ fetch.at \in {"idle", "off"}
      <3>1. 1 \in 1..Len(Requests)
        BY FourRequests
      <3> QED BY <3>1 DEF Init, Fetches
    <2>3. app \in Apps /\ app.sel = 0
      BY IpcServerAssumption DEF Init, Apps
    <2>4. chan \in Seq(Updates) /\ Len(chan) <= ChanCap
      BY ConsoleAssumption DEF Init
    <2> QED BY <2>1, <2>2, <2>3, <2>4, Types DEF IInv, SelectionInList, ReplyIsForRequest,
            ClosedStreamEmpty, SendsSomething
  <1>2. IInv /\ [Next]_vars => IInv'
    <2> SUFFICES ASSUME IInv, [Next]_vars PROVE IInv'
      OBVIOUS
    <2>1. CASE ServerNext /\ UNCHANGED tuiVars
      BY <2>1, ServerInv
    <2>2. CASE FetchNext
      BY <2>2, FetchInv
    <2>3. CASE TakeUpdate \/ TakeKey \/ Render
      BY <2>3, MainInv
    <2>4. CASE UNCHANGED vars
      BY <2>4 DEF vars, serverVars, tuiVars, IInv, TypeOK, ServerTypeOK, SelectionInList,
         ReplyIsForRequest, ClosedStreamEmpty, SendsSomething
    <2> QED BY <2>1, <2>2, <2>3, <2>4 DEF Next, FetchNext
  <1> QED BY <1>1, <1>2, PTL DEF Spec

\* The channel keeps to its capacity and every part of the program to its type, for
\* any capacity and any number of interfaces.
THEOREM TypeCorrect == Spec => []TypeOK
  BY Invariance, PTL DEF IInv

\* The selection is a row of the list, whatever refreshes and keys do (apply_interfaces,
\* select_interface_up and select_interface_down).
THEOREM SelectionCorrect == Spec => []SelectionInList
  BY Invariance, PTL DEF IInv

\* A reply on the stream is the answer to the request its reader waits for, although
\* nothing on the wire says so (IpcClient::request).
THEOREM RepliesCorrect == Spec => []ReplyIsForRequest
  BY Invariance, PTL DEF IInv

\* What a key or an update changes on the screen is drawn at a later tick
\* (mark_dirty in every handler of App).
THEOREM NothingUndrawn == Spec => NoSilentChange
  <1>1. IInv /\ [Next]_vars => [Visible' # Visible => app'.dirty]_vars
    <2> SUFFICES ASSUME IInv, Next, Visible' # Visible PROVE app'.dirty
      OBVIOUS
    <2>0. app \in Apps
      BY Types DEF IInv
    <2>1. ASSUME NEW u \in Updates, app' = ApplyUpdate(app, u) PROVE app'.dirty
      BY <2>0, <2>1 DEF ApplyUpdate, ApplyInterfaces, Apps
    <2>2. ASSUME NEW k \in Keys, app' = AfterKey(app, k) PROVE app'.dirty
      <3>1. CASE k = "q"
        BY <2>0, <2>2, <3>1 DEF AfterKey, Apps, Visible
      <3>2. CASE k # "q"
        BY <2>0, <2>2, <3>2 DEF AfterKey, Turn, Select, Apps, Visible
      <3> QED BY <3>1, <3>2
    <2>3. app' = [app EXCEPT !.dirty = FALSE] => Visible' = Visible
      BY <2>0 DEF Apps, Visible
    <2>4. UNCHANGED app => Visible' = Visible
      BY DEF Visible
    <2>5. CASE TakeUpdate
      <3>1. Head(chan) \in Updates
        BY <2>5, Types DEF IInv, TakeUpdate
      <3> QED BY <2>1, <2>5, <3>1 DEF TakeUpdate
    <2>6. CASE TakeKey
      BY <2>2, <2>6 DEF TakeKey
    <2>7. CASE Render
      BY <2>3, <2>7 DEF Render
    <2>8. CASE FetchNext \/ (ServerNext /\ UNCHANGED tuiVars)
      BY <2>4, <2>8 DEF FetchNext, TickFetch, BeginFetch, Ask, Receive, Hangup, SendUpdate,
         EndFetch, tuiVars
    <2> QED BY <2>5, <2>6, <2>7, <2>8 DEF Next, FetchNext
  <1> QED BY <1>1, Invariance, PTL DEF Spec, NoSilentChange
==============================================================================
