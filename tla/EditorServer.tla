---------------------------- MODULE EditorServer ----------------------------
\* What happens at the other end: the recording that grows, the session that
\* dies, and what the API does with each request of the page.
EXTENDS EditorState

Changed == stamp < MaxStamp /\ stamp' = stamp + 1

\* The worker records an action; a closing action stops the recording.
RecordStep ==
    /\ session # 0 /\ recording /\ made < MaxSteps
    /\ Changed
    /\ \E final \in BOOLEAN :
        /\ rec' = Append(rec, Recorded(made + 1, final))
        /\ recording' = ~final
    /\ made' = made + 1
    /\ UNCHANGED <<user, opened, session, holding, editor, wasRecording, poll, op, server, seen>>

\* Typing on in the same field rewrites the step it has already made.
RefineStep ==
    /\ session # 0 /\ recording /\ rec # <<>>
    /\ ~Last(rec).final /\ Last(rec).says < MaxVersion
    /\ Changed
    /\ rec' = [rec EXCEPT ![Len(rec)].says = @ + 1]
    /\ UNCHANGED <<user, made, opened, session, recording, holding, editor, wasRecording,
                   poll, op, server, seen>>

\* The session ends without the page: idle, age limit, the browser dying.
SessionDies ==
    /\ session # 0
    /\ session' = 0 /\ rec' = <<>> /\ recording' = FALSE
    /\ UNCHANGED <<user, made, opened, stamp, holding, editor, wasRecording, poll, op, server, seen>>

-----------------------------------------------------------------------------
Served(r, at) == op' = [op EXCEPT ![r].at = at]
Answers(r, kind) == op[r].kind = kind /\ op[r].at = "sent"
Mute == UNCHANGED <<user, made, holding, editor, wasRecording, poll, seen>>

\* POST /sessions. One session lives at a time: the page releases one it lets
\* go of before it opens another.
ServeOpen(r) ==
    /\ Answers(r, "open")
    /\ session = 0 /\ opened < MaxSessions
    /\ opened' = opened + 1 /\ session' = opened + 1
    /\ rec' = <<>> /\ recording' = FALSE /\ stamp' = stamp + 1
    /\ op' = [op EXCEPT ![r].at = "served", ![r].of = opened']
    /\ UNCHANGED server /\ Mute

\* POST /sessions/:id/recording, refused once a closing action was recorded.
ServeRecord(r) ==
    /\ session = op[r].of /\ Served(r, "served")
    /\ \/ /\ Answers(r, "record")
          /\ ~\E k \in DOMAIN rec : rec[k].final
          /\ recording' = TRUE
       \/ /\ Answers(r, "stop")
          /\ recording' = FALSE
    /\ UNCHANGED <<opened, session, rec, stamp, server>> /\ Mute

\* DELETE /sessions/:id/recording drops what was recorded and leaves the
\* recording running if it was.
ServeClear(r) ==
    /\ session = op[r].of /\ Answers(r, "clear") /\ Served(r, "served")
    /\ Changed
    /\ rec' = <<>>
    /\ UNCHANGED <<opened, session, recording, server>> /\ Mute

\* DELETE /sessions/:id
ServeClose(r) ==
    /\ Answers(r, "close") /\ Served(r, "served")
    /\ IF session = op[r].of
         THEN session' = 0 /\ rec' = <<>> /\ recording' = FALSE
         ELSE UNCHANGED <<session, rec, recording>>
    /\ UNCHANGED <<opened, stamp, server>> /\ Mute

\* POST /sessions/:id/credentials: what was captured, except the secrets that
\* exist and the user did not choose to replace.
ServeCredentials(r) ==
    /\ session = op[r].of /\ op[r].at = "creds" /\ Served(r, "put")
    /\ \E overwrite \in SUBSET {i \in SecretIds : cred[i] # "absent"} :
        cred' = [i \in SecretIds |->
                    IF i \in IdsOf(rec) /\ (cred[i] = "absent" \/ i \in overwrite)
                      THEN "filled" ELSE cred[i]]
    /\ UNCHANGED <<opened, worker, stored>> /\ Mute

\* createReferencedValues: every secret the steps name exists, if need be empty.
createReferencedValues(list) ==
    [i \in SecretIds |->
        IF i \in IdsOf(list) /\ cred[i] = "absent" THEN "empty" ELSE cred[i]]

\* PUT /workflows/:id/steps replaces every row in one transaction. It is refused
\* (OpFails) while a run is in flight, whatever the list.
ServeSteps(r) ==
    /\ op[r].at = "put" /\ FinalLast(op[r].payload)
    /\ stored' = [k \in DOMAIN op[r].payload |-> FromRow(op[r].payload[k])]
    /\ cred' = createReferencedValues(op[r].payload)
    /\ op' = [op EXCEPT ![r] = [NoOp EXCEPT !.kind = op[r].kind, !.at = "saved", !.answer.steps = stored']]
    /\ UNCHANGED <<opened, worker>> /\ Mute

\* GET /workflows/:id
ServeWorkflow(r) ==
    /\ op[r].at = "load"
    /\ op' = [op EXCEPT ![r].at = "loaded", ![r].answer.steps = stored]
    /\ UNCHANGED <<opened, worker, server>> /\ Mute

\* GET /sessions/:id/recording, for Stop.
ServeRecording(r) ==
    /\ session = op[r].of /\ op[r].at = "pull"
    /\ op' = [op EXCEPT ![r].at = "pulled", ![r].answer = [steps |-> rec, stamp |-> stamp]]
    /\ UNCHANGED <<opened, worker, server>> /\ Mute

\* Any request may be refused, and any answer may be lost: run() shows the error.
OpFails(r) ==
    /\ op[r] # NoOp /\ op' = [op EXCEPT ![r] = NoOp]
    /\ UNCHANGED <<opened, worker, server>> /\ Mute

Serve(r) ==
    \/ ServeOpen(r) \/ ServeRecord(r) \/ ServeClear(r) \/ ServeClose(r)
    \/ ServeCredentials(r) \/ ServeSteps(r) \/ ServeWorkflow(r) \/ ServeRecording(r)
    \/ OpFails(r)

ServerNext == RecordStep \/ RefineStep \/ SessionDies \/ \E r \in Requests : Serve(r)
=============================================================================
