----------------------------- MODULE MCCollector -----------------------------
EXTENDS Collector

CONSTANTS s1, s2

MCSessions == {s1, s2}

Hook(ev, tool, size, usage) ==
  [ev |-> ev, tool |-> tool, size |-> size, usage |-> usage,
   error |-> tool = "u"]

Plain(ev) == Hook(ev, None, 1, FALSE)

\* A turn with a tool, next to a hook larger than the spool; a tool that never
\* completes in a session that is resumed after its end; a session that is
\* resumed by a tool; an oversize completion
\* without a start, next to another session; two hooks that fill the spool; a
\* failed tool that is reported twice.
MCScripts ==
  { (s1 :> <<Plain("prompt"), Hook("pre-tool", "t", 1, FALSE),
             Hook("post-tool", "t", 1, TRUE), Hook("stop", None, 1, TRUE)>>
     @@ s2 :> <<Hook("notify", None, 90, FALSE)>>),
    (s1 :> <<Hook("pre-tool", "t", 1, FALSE), Hook("pre-tool", "t", 1, FALSE),
             Plain("session-end"), Plain("session-start")>>
     @@ s2 :> <<>>),
    (s1 :> <<Plain("session-end"), Hook("pre-tool", "t", 1, FALSE)>> @@ s2 :> <<>>),
    (s1 :> <<Plain("prompt"), Hook("post-tool-failure", "u", 3, TRUE),
             Plain("subagent-stop")>>
     @@ s2 :> <<Plain("permission")>>),
    (s1 :> <<Hook("notify", None, 30, FALSE)>>
     @@ s2 :> <<Hook("notify", None, 30, FALSE)>>),
    (s1 :> <<Hook("post-tool-failure", "t", 1, FALSE),
             Hook("post-tool-failure", "t", 1, FALSE)>>
     @@ s2 :> <<>>) }

\* Two sessions, of which one has an oversize completion or a completion with
\* model usage; two hooks that fill the spool.
MCLiveScripts ==
  { (s1 :> <<Hook("post-tool", "t", 3, TRUE)>>
     @@ s2 :> <<Plain("permission")>>),
    (s1 :> <<Hook("stop", None, 1, TRUE)>> @@ s2 :> <<Plain("prompt")>>),
    (s1 :> <<Hook("notify", None, 30, FALSE)>>
     @@ s2 :> <<Hook("notify", None, 30, FALSE)>>) }

\* Two sessions that begin.
MCStarts == { (s1 :> <<Plain("prompt")>> @@ s2 :> <<Plain("prompt")>>) }

\* The user interrupts a turn, so no Stop hook is raised, and goes on.
MCInterrupted ==
  { (s1 :> <<Plain("session-start"), Plain("prompt"), Plain("prompt"),
             Hook("stop", None, 1, TRUE), Plain("session-end")>>
     @@ s2 :> <<Plain("notify")>>) }

MCLimits == <<2, 4>>
=============================================================================
