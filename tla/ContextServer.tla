---------------------------- MODULE ContextServer ----------------------------
(***************************************************************************)
(* The loopback server of one call (serve.py), from the assembly of its    *)
(* prompt to the end of its job.  agy's requests are answered by a handler *)
(* thread each; whoever ends the job, the failing start and the failing    *)
(* call close the server, some of them twice or at the same time.          *)
(*                                                                         *)
(* A URL is the one-time token and a quoted name that the handler unquotes *)
(* again: it stands for the name, or for no name when the token is wrong.  *)
(***************************************************************************)
EXTENDS PrepareContext

CONSTANTS Handlers,     \* requests being answered
          Closers,      \* threads that may close the server
          NoName,       \* a path outside the token, or a name nobody was given
          Nothing       \* an answer without content

ASSUME ServerAssumption == Closers # {}

VARIABLES
    job,        \* the call's agy: "none", "running", "ended" or "failed" (to start)
    listening,  \* the port is open
    closed,     \* _closed and state["closed"]
    snapshot,   \* _files
    handler,    \* [Handlers -> HandlerStates]
    closer      \* [Closers -> ClosePhases]

serverVars == <<job, listening, closed, snapshot, handler, closer>>
allVars == <<vars, serverVars>>

Index == <<"INDEX">>
NoFiles == [n \in {} |-> Nothing]

\* "looked" holds the content found (Nothing: 404), "done" what was sent.
Answer(pc, name, head, content) ==
    [pc |-> pc, name |-> name, head |-> head, content |-> content]
NoRequest == Answer("idle", NoName, FALSE, Nothing)

ServerInit ==
    /\ Init
    /\ job = "none" /\ listening = FALSE /\ closed = FALSE /\ snapshot = NoFiles
    /\ handler = [h \in Handlers |-> NoRequest]
    /\ closer = [c \in Closers |-> "idle"]

\* What is served: the files and an index of their names, whose text is left out.
Snapshot == [n \in DOMAIN files \cup {Index} |-> IF n = Index THEN Index ELSE files[n]]

\* The server listens before its URLs are written into the prompt.
OpenServer ==
    /\ Open
    /\ listening' = (served # <<>>)
    /\ snapshot' = IF served = <<>> THEN NoFiles ELSE Snapshot
    /\ UNCHANGED <<job, closed, handler, closer>>

\* registry.start raises for its prompt or its spawn, or the job runs.
StartJob ==
    /\ Start
    /\ job' \in IF PromptBytes > ArgvLimit THEN {"failed"} ELSE {"failed", "running"}
    /\ UNCHANGED <<listening, closed, snapshot, handler, closer>>

\* The watcher, a cancel or a recovery ends the job.
JobEnds ==
    /\ job = "running"
    /\ job' = "ended"
    /\ UNCHANGED <<vars, listening, closed, snapshot, handler, closer>>

----------------------------------------------------------------------------
\* _serve()

Becomes(h, a) == handler' = [handler EXCEPT ![h] = a]

\* A connection is accepted while the port is open, or kept alive from before.
Request(h, name, head) ==
    /\ handler[h].pc \in {"idle", "done"}
    /\ listening \/ handler[h].pc = "done"
    /\ Becomes(h, Answer("asked", name, head, Nothing))
    /\ UNCHANGED <<vars, job, listening, closed, snapshot, closer>>

\* 503 and the end of the connection, once the server is closed.
CheckClosed(h) ==
    /\ handler[h].pc = "asked"
    /\ Becomes(h, IF closed THEN NoRequest ELSE [handler[h] EXCEPT !.pc = "checked"])
    /\ UNCHANGED <<vars, job, listening, closed, snapshot, closer>>

Lookup(h) ==
    LET a == handler[h] IN
    /\ a.pc = "checked"
    /\ Becomes(h, Answer("looked", a.name, a.head,
                         IF a.name \in DOMAIN snapshot THEN snapshot[a.name] ELSE Nothing))
    /\ UNCHANGED <<vars, job, listening, closed, snapshot, closer>>

\* Mutant: a HEAD is answered like a GET.
ReplyBodied(h) ==
    /\ handler[h].pc = "looked"
    /\ Becomes(h, [handler[h] EXCEPT !.pc = "done"])
    /\ UNCHANGED <<vars, job, listening, closed, snapshot, closer>>

\* A HEAD is answered without the content.
Reply(h) ==
    LET a == handler[h] IN
    /\ a.pc = "looked"
    /\ Becomes(h, Answer("done", a.name, a.head, IF a.head THEN Nothing ELSE a.content))
    /\ UNCHANGED <<vars, job, listening, closed, snapshot, closer>>

----------------------------------------------------------------------------
\* close(): idempotent, under _close_lock; the port is closed outside of it.

\* Mutant: the server is closed when agy's process ends, though a retry may follow.
ToCloseEarly(c) == closer[c] = "idle" /\ job # "none" /\ served # <<>>

\* Mutant: a start that fails leaves its server.
ToCloseEnded(c) == closer[c] = "idle" /\ job = "ended" /\ served # <<>>

ToClose(c) == closer[c] = "idle" /\ job \in {"ended", "failed"} /\ served # <<>>

LockFree == \A c \in Closers : closer[c] # "clearing"

CloseMark(c) ==
    /\ ToClose(c) /\ LockFree
    /\ IF closed
       THEN closer' = [closer EXCEPT ![c] = "done"] /\ UNCHANGED closed
       ELSE closer' = [closer EXCEPT ![c] = "clearing"] /\ closed' = TRUE
    /\ UNCHANGED <<vars, job, listening, snapshot, handler>>

\* Mutant: the files stay in memory.
CloseClearKeeps(c) ==
    /\ closer[c] = "clearing"
    /\ closer' = [closer EXCEPT ![c] = "shutdown"]
    /\ UNCHANGED <<vars, job, listening, closed, snapshot, handler>>

CloseClear(c) ==
    /\ closer[c] = "clearing"
    /\ snapshot' = NoFiles
    /\ closer' = [closer EXCEPT ![c] = "shutdown"]
    /\ UNCHANGED <<vars, job, listening, closed, handler>>

\* shutdown and server_close: the handlers are daemon threads, nobody joins them.
ClosePort(c) ==
    /\ closer[c] = "shutdown"
    /\ listening' = FALSE
    /\ closer' = [closer EXCEPT ![c] = "done"]
    /\ UNCHANGED <<vars, job, closed, snapshot, handler>>

Close(c) == CloseMark(c) \/ CloseClear(c) \/ ClosePort(c)

----------------------------------------------------------------------------
Handle(h) == CheckClosed(h) \/ Lookup(h) \/ Reply(h)

\* agy reads the names it was given, the index, or anything else.
Requested(h) ==
    /\ job # "none"
    /\ \E name \in DOMAIN files \cup {Index, NoName}, head \in BOOLEAN :
           Request(h, name, head)

Preparing ==
    /\ Prepare \/ \E p \in Paths, content \in Contents : Edit(p, content)
    /\ UNCHANGED serverVars

ServerNext ==
    \/ Preparing \/ OpenServer \/ StartJob \/ JobEnds
    \/ \E h \in Handlers : Requested(h) \/ Handle(h)
    \/ \E c \in Closers : Close(c)

\* The call and the closers go on; what agy asks and when it ends is its own.
ServerSpec ==
    /\ ServerInit /\ [][ServerNext]_allVars
    /\ \A c \in Closers : WF_allVars(Close(c))

----------------------------------------------------------------------------
\* The names behind the URLs of the prompt; without a served file it has none.
Listed == IF served = <<>> THEN {}
          ELSE {Index} \cup UNION {{served[i].names[p] : p \in DOMAIN served[i].names} :
                                   i \in DOMAIN served}

\* Whatever agy is told to read it can read: while its job runs, a request for a URL
\* of the prompt passes the check and finds the part it stands for, whoever ends other
\* requests meanwhile; only the end of the job takes the server away (server.py:
\* 331-334, serve.py:51-75).
UrlsResolve ==
    [][\A h \in Handlers :
        LET a == handler[h] IN
        job = "running" /\ a.name \in Listed /\ handler'[h] # a =>
            /\ a.pc = "asked" => handler'[h].pc = "checked"
            /\ a.pc = "checked" =>
                   handler'[h].content = IF a.name = Index THEN Index ELSE files[a.name]
      ]_allVars

\* An answer is what the name it asked for stands for: nothing of another file
\* and no content in the answer to a HEAD, which would be taken for the next
\* answer of the connection (serve.py:48-50).
AnswersRight == \A h \in Handlers :
    handler[h].pc = "done" /\ handler[h].content # Nothing =>
        /\ ~handler[h].head
        /\ handler[h].name = Index \/ handler[h].content = files[handler[h].name]

\* Once close() has cleared the snapshot no request is given a file any more, not
\* even one that had passed the check before: the server lives as long as its job
\* (serve.py:54-57, 137-139).
NothingAfterClose ==
    [][\A h \in Handlers : (\E c \in Closers : closer[c] \in {"shutdown", "done"})
        => handler'[h].content = Nothing \/ handler'[h].content = handler[h].content]_allVars

\* A server whose job has ended or never began closes its port, whoever closes it
\* and however often (server.py:384-389, jobs.py:483-490).
ServerEnds == (job \in {"ended", "failed"}) ~> ~listening
=============================================================================
