----------------------------- MODULE StatusPage -----------------------------
(***************************************************************************)
(* The page of a submission (templates/submission/status.html) while the   *)
(* submission is judged.  A handler of the bridge writes the row and posts *)
(* events (judge_handler.py); the page is rendered from the row and from   *)
(* event.last() (views/submission.py), and fetches the test cases again    *)
(* whenever an event comes.  Composed with EventDaemon, which carries the  *)
(* events.                                                                 *)
(***************************************************************************)
EXTENDS EventDaemon

CONSTANTS
    Scripts,        \* what a handler may write and post, in order
    Handler, Other, \* the poster that judges the submission; any other thread
    Topic,          \* the channel of the submission
    OtherPosts,     \* what other threads post: pairs of channel and type
    Heard,          \* the types the page reacts to
    MaxExtra,       \* bound: posts of other threads and posts made twice
    MaxFaults       \* bound: crashes, lost connections, posts and fetches

\* The type of the last event of a script for the page, and what posts it.
VerdictOf(s) == Last(SelectSeq(s, LAMBDA d : d.channel = Topic)).type
IsVerdictOf(s, d) == d.do = "post" /\ d.channel = Topic /\ d.type = VerdictOf(s)

\* The verdict is posted when the row has been written for the last time.
ASSUME PageAssumption ==
    /\ {Handler, Other} \subseteq Poster
    /\ \A c \in Client : Topic \in Wanted[c]
    /\ MaxExtra \in Nat /\ MaxFaults \in Nat
    /\ OtherPosts \subseteq Channel \X Type
    /\ \A s \in Scripts :
          /\ s \in Seq(Range(s))
          /\ \A i \in DOMAIN s :
                /\ s[i].do = "post" => s[i].channel \in Channel /\ s[i].type \in Type
                /\ IsVerdictOf(s, s[i]) => \A j \in i .. Len(s) : s[j].do # "write"

VARIABLES
    script,     \* what the handler does with this submission
    pc,         \* the handler's next step
    row,        \* the state of the row: how often it has been written
    final,      \* history: ids of the event about the verdict
    extra, lost,    \* posts beyond the script, and posts given up
    page,       \* page[c]: how far the page is loaded
    shown,      \* shown[c]: the state of the row the page shows
    fetch,      \* fetch[c]: the ajax request of update()
    answer,     \* answer[c]: the state of the row in its answer
    again       \* again[c]: the flag "request" of the page

handlerVars == <<script, pc, row, final, extra, lost>>
pageVars == <<page, shown, fetch, answer, again>>
allVars == <<eventVars, handlerVars, pageVars>>

Writes == Cardinality({i \in DOMAIN script : script[i].do = "write"})
Graded(v) == v = Writes
Verdict == VerdictOf(script)

PageTypeOK ==
    /\ EventTypeOK
    /\ script \in Scripts /\ pc \in 1 .. Len(script) + 1 /\ row \in 0 .. Writes
    /\ final \in SUBSET Nat
    /\ extra \in 0 .. MaxExtra /\ lost \in Nat
    /\ page \in [Client -> {"unloaded", "rendering", "live", "static"}]
    /\ shown \in [Client -> 0 .. Writes] /\ answer \in [Client -> 0 .. Writes]
    /\ fetch \in [Client -> {"none", "asked", "answered", "cooling", "failed"}]
    /\ again \in [Client -> BOOLEAN]

PageInit ==
    /\ EventInit
    /\ script \in Scripts /\ pc = 1 /\ row = 0 /\ final = {}
    /\ extra = 0 /\ lost = 0
    /\ page = [c \in Client |-> "unloaded"]
    /\ shown = [c \in Client |-> 0] /\ answer = [c \in Client |-> 0]
    /\ fetch = [c \in Client |-> "none"] /\ again = [c \in Client |-> FALSE]

Faults ==
    lost + restarts + FoldFunction(+, 0, breaks)
         + Cardinality({c \in Client : fetch[c] = "failed"})

MayFail == Faults < MaxFaults

-----------------------------------------------------------------------------
(* The handler: each write of the row and each post is a step.             *)

Doing(what) == pc <= Len(script) /\ script[pc].do = what

WriteRow ==
    /\ Doing("write")
    /\ row' = row + 1 /\ pc' = pc + 1
    /\ UNCHANGED <<eventVars, pageVars, script, final, extra, lost>>

PostEvent(next) ==
    /\ Doing("post")
    /\ Post(Handler, script[pc].channel, script[pc].type)
    /\ pc' = next
    /\ final' = IF IsVerdictOf(script, script[pc]) THEN final \cup {clock + 1} ELSE final
    /\ UNCHANGED <<pageVars, script, row, lost>>

PostOnce == PostEvent(pc + 1) /\ UNCHANGED extra

\* The answer of the daemon is lost: the poster connects and posts again.
PostAgain ==
    /\ source = "daemon"
    /\ extra < MaxExtra
    /\ extra' = extra + 1
    /\ PostEvent(pc)

\* The poster gives up and returns 0, or a statement before the post raised.
PostLost ==
    /\ Doing("post")
    /\ MayFail
    /\ lost' = lost + 1 /\ pc' = pc + 1
    /\ UNCHANGED <<eventVars, pageVars, script, row, final, extra>>

\* Another thread posts.
OtherPost ==
    /\ extra < MaxExtra
    /\ extra' = extra + 1
    /\ \E e \in OtherPosts : Post(Other, e[1], e[2])
    /\ UNCHANGED <<pageVars, script, pc, row, final, lost>>

-----------------------------------------------------------------------------
(* The page is rendered: the row first, event.last() after it.             *)

\* get_object.
Render(c) ==
    /\ page[c] = "unloaded"
    /\ page' = [page EXCEPT ![c] = "rendering"]
    /\ shown' = [shown EXCEPT ![c] = row]
    /\ UNCHANGED <<eventVars, handlerVars, fetch, answer, again>>

\* event.last(), which is 0 if the daemon does not answer.  The template makes a
\* receiver if the submission is not graded and last_msg is not 0.
Loaded(c) ==
    /\ page[c] = "rendering"
    /\ \/ /\ ~Graded(shown[c])
          /\ page' = [page EXCEPT ![c] = "live"]
          /\ Open(c, clock)
          /\ UNCHANGED lost
       \/ /\ \/ Graded(shown[c]) /\ UNCHANGED lost
             \/ MayFail /\ lost' = lost + 1
          /\ page' = [page EXCEPT ![c] = "static"]
          /\ UNCHANGED eventVars
    /\ UNCHANGED <<script, pc, row, final, extra, shown, fetch, answer, again>>

-----------------------------------------------------------------------------
(* update(): one request at a time, and at most one every half second.     *)

\* Mutation: an event that comes while a request is out is dropped.
Update_Dropped(c) ==
    /\ fetch' = [fetch EXCEPT ![c] = IF @ = "none" THEN "asked" ELSE @]
    /\ UNCHANGED again

Update(c) ==
    IF fetch[c] = "none"
    THEN /\ fetch' = [fetch EXCEPT ![c] = "asked"]
         /\ again' = [again EXCEPT ![c] = FALSE]
    ELSE /\ again' = [again EXCEPT ![c] = TRUE]
         /\ UNCHANGED fetch

OnMessage(c) ==
    /\ Receive(c)
    /\ IF Head(wire[c]).type \in Heard THEN Update(c) ELSE UNCHANGED <<fetch, again>>
    /\ UNCHANGED <<handlerVars, page, shown, answer>>

FetchStep(c, from, to) ==
    /\ fetch[c] = from
    /\ fetch' = [fetch EXCEPT ![c] = to]
    /\ UNCHANGED <<eventVars, handlerVars, page>>

\* The site reads the row and answers.
Serve(c) ==
    /\ FetchStep(c, "asked", "answered")
    /\ answer' = [answer EXCEPT ![c] = row]
    /\ UNCHANGED <<shown, again>>

\* done: the page shows the answer and starts a timer.
Done(c) ==
    /\ FetchStep(c, "answered", "cooling")
    /\ shown' = [shown EXCEPT ![c] = answer[c]]
    /\ UNCHANGED <<answer, again>>

\* Mutation: the flag is not looked at.
Unblock_Forgets(c) ==
    /\ FetchStep(c, "cooling", "none")
    /\ again' = [again EXCEPT ![c] = FALSE]
    /\ UNCHANGED <<shown, answer>>

\* The timer: blocked is FALSE; update() again if an event came meanwhile.
Unblock(c) ==
    /\ FetchStep(c, "cooling", IF again[c] THEN "asked" ELSE "none")
    /\ again' = [again EXCEPT ![c] = FALSE]
    /\ UNCHANGED <<shown, answer>>

\* fail: blocked stays TRUE.
Fail(c) ==
    /\ MayFail
    /\ FetchStep(c, "asked", "failed") \/ FetchStep(c, "answered", "failed")
    /\ UNCHANGED <<shown, answer, again>>

-----------------------------------------------------------------------------
Event(A) == A /\ UNCHANGED <<handlerVars, pageVars>>

DaemonSteps == \E p \in Poster : Event(Deliver(p))
ReceiverSteps(c) ==
    \/ Event(Connect(c)) \/ Event(StartMsg(c)) \/ Event(SetFilter(c))
    \/ Event(Ask(c)) \/ Event(Poll(c)) \/ OnMessage(c)
PageSteps(c) == Loaded(c) \/ Serve(c) \/ Done(c) \/ Unblock(c)
HandlerSteps == WriteRow \/ PostOnce

PageNext ==
    \/ HandlerSteps \/ PostAgain \/ PostLost \/ OtherPost
    \/ DaemonSteps \/ Event(MayFail /\ Restart)
    \/ \E c \in Client :
          \/ Render(c) \/ PageSteps(c) \/ Fail(c)
          \/ ReceiverSteps(c) \/ Event(PollTimeout(c)) \/ Event(MayFail /\ Break(c))

PageFairness ==
    /\ WF_allVars(HandlerSteps) /\ WF_allVars(DaemonSteps)
    /\ \A c \in Client : WF_allVars(ReceiverSteps(c)) /\ WF_allVars(PageSteps(c))

PageSpec == PageInit /\ [][PageNext]_allVars /\ PageFairness

-----------------------------------------------------------------------------
(* Properties.                                                             *)

\* A page that was told of the verdict shows it, or has a request out whose answer
\* will bring it, or will ask again: no event is swallowed by the page's blocked
\* and request flags (status.html update()).
ToldMeansShown ==
    \A c \in Client :
        /\ page[c] = "live" /\ final \cap seen[c] # {}
        /\ Verdict \in Heard /\ fetch[c] # "failed"
        => \/ Graded(shown[c])
           \/ fetch[c] = "asked"
           \/ fetch[c] = "answered" /\ Graded(answer[c])
           \/ again[c]

\* The events about the verdict that c has still to be told, wherever they are.
Gone(c) ==
    \A i \in final :
        /\ i \notin seen[c]
        /\ i <= start[c] \/ i \notin Ids(messages) \cup Ids(wire[c]) \/ i \in late
        /\ \A p \in Poster : i \notin Ids(sending[p])

\* Once the handler has finished, every live page comes to show the verdict,
\* except when its event was given up, was posted before the page asked for the
\* last id, left the queue before the page could be told of it or overtaken, when
\* a fetch failed, or when it is an abort, to which the page does not react.
VerdictShown ==
    \A c \in Client :
        (page[c] = "live" /\ pc > Len(script))
        ~> \/ Graded(shown[c])
           \/ Gone(c) \/ fetch[c] = "failed" \/ Verdict \notin Heard
=============================================================================
