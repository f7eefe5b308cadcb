----------------------------- MODULE Background ------------------------------
(* What runs behind the requests, each part with its own state: the         *)
(* scheduler's ticks, the query watches it checks, the rows that handlers,  *)
(* the heartbeat and the reaper write, and what stands before and behind a  *)
(* model call: the provider's tokens, the administrator's settings, the     *)
(* parameters a model refuses, what of its reply is the answer, and the     *)
(* cassettes that tests record and replay.                                  *)
EXTENDS Scheduling, Watching, JobRows, Connections, LLMSettings, Negotiation, Thinking,
        Cassette

\* scheduler.py, registry.py: a schedule fires each of its slots once and waits for an
\* hour of its own calendar, though ticks roll back and users change it meanwhile; a query
\* watch is told once of each claim whose date a check passed, but for those that came
\* late, had ended or were crowded out; a running job shows the last progress it told
\* unless its own transaction holds its row, waits in no circle, and is reaped while it
\* works only because of another's row.
JobsHold ==
    /\ SchedulingTypeOK /\ ScheduleTells
    /\ WatchingTypeOK /\ WatchTells
    /\ RowsTell

\* app/llm: the stored refresh token is one the provider takes, and the row what the
\* administrator left unless a refresh was under way; edits of the settings add up unless
\* they overlap; a call is lost to a refused parameter only beside one that taught; a
\* reply shows what is outside of its tags however its stream is cut, and its object is
\* found; a cassette tells one client one answer.
ModelHolds ==
    /\ ConnectionsTell
    /\ SettingsTell
    /\ NegotiationTells
    /\ RepliesTell
    /\ CassetteTells
=============================================================================
