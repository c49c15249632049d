---------------------------- MODULE MCStatusPage ----------------------------
(* A small instance of StatusPage: one page, two threads that post. *)
EXTENDS StatusPage

CONSTANTS c1, handler, other

MCWanted == [c \in Client |-> {"sub"}]

Did(what, ch, t) == [do |-> what, channel |-> ch, type |-> t]
WriteThenPost(t) == <<Did("write", "row", t), Did("post", "sub", t)>>
PostThenWrite(t) == <<Did("post", "sub", t), Did("write", "row", t)>>

\* A test case is posted and written, a verdict is written and posted.  What goes to
\* the lists of submissions is among the other posts.
MCScripts ==
    {PostThenWrite("test-case") \o WriteThenPost(v) :
        v \in {"grading-end", "aborted-submission"}}
MCHeard == {"internal-error", "grading-end", "compile-error", "test-case",
            "grading-begin", "processing"}
MCOtherPosts == {<<"sub", "processing">>, <<"submissions", "processing">>}
=============================================================================
