-------------------------------- MODULE Wcloud --------------------------------
(***************************************************************************)
(* The command line client of the deployment service (tools/cmd/wcloud).   *)
(* Several users run it at the same time, each one command after another.  *)
(* A command checks its arguments, sends one request, and turns the answer *)
(* into output and an exit status; it never retries.  Its connection may   *)
(* break at any time: the request is then lost, or handled much later, and *)
(* an error status does not tell whether the service did what it was asked *)
(* to do.                                                                  *)
(*                                                                         *)
(* The service is not part of the repository.  It is modelled by what the  *)
(* client relies on: a list of deployments and one configuration, each     *)
(* request handled at one moment.  It notes when it created a deployment,  *)
(* and lists those created from one moment through another.  These moments *)
(* are the user's own: the user's clock, which may be wrong, rounded down  *)
(* to seconds.  Commands are numbered as they are started; a deployment is *)
(* known by the number of the command that asked for it, a configuration   *)
(* by its number in the order in which they were accepted.                 *)
(***************************************************************************)
EXTENDS Integers

CONSTANTS
  Users,
  MaxRuns,   \* bound: commands that users start, all together
  MaxTime,   \* bound: moments that pass
  Second,    \* moments in a second
  Skew,      \* moments by which a user's clock may be off, either way
  Sinces     \* how far back users ask list and events to go (-since)

ASSUME WcloudAssumption ==
  /\ MaxRuns \in Nat /\ MaxTime \in Nat /\ Skew \in Nat
  /\ Second \in Nat \ {0} /\ Sinces \subseteq Nat

Commands == {"deploy", "list", "events", "logs", "set", "get"}
Writing == {"deploy", "set"}   \* commands that change what the service holds
Deployments == 1..MaxRuns

\* What the service holds: deployments, and the number of a configuration, 0 if
\* there is none.
View == [deployments : SUBSET Deployments, config : Nat]
Nothing == [deployments |-> {}, config |-> 0]

VARIABLES
  service,    \* what the service holds
  now,        \* the time
  created,    \* created[d]: when the service created deployment d
  requests,   \* requests on their way, as <<user, run, command, window>>
  runs,       \* commands that users have started
  run,        \* run[u]: the number of u's command, 0 before the first
  waiting,    \* waiting[u]: u's command has sent its request
  command,    \* command[u]: the command that u runs, or ran last
  reply,      \* reply[u]: the answer on its way to u; status 0 is none
  exit,       \* exit[u]: how u's last command ended
  shown,      \* shown[u]: the deployments that it printed
  acked,      \* history variable: what users were told is done
  asked       \* history variable: asked[u]: when u's list began, how far back it
              \* goes, and which deployments users had been told of by then

shell == <<runs, run, waiting, command, exit, shown, asked>>
vars == <<service, now, created, requests, reply, acked, shell>>

NoReply == [status |-> 0, body |-> Nothing]
NotAsked == [time |-> 0, since |-> 0, told |-> {}]
NoWindow == <<0, 0>>

Init ==
  /\ service = Nothing
  /\ now = 0
  /\ created = [d \in Deployments |-> 0]
  /\ requests = {}
  /\ runs = 0
  /\ run = [u \in Users |-> 0]
  /\ waiting = [u \in Users |-> FALSE]
  /\ command = [u \in Users |-> "none"]
  /\ reply = [u \in Users |-> NoReply]
  /\ exit = [u \in Users |-> "none"]
  /\ shown = [u \in Users |-> {}]
  /\ acked = Nothing
  /\ asked = [u \in Users |-> NotAsked]

(***************************************************************************)
(* cli.go: from the arguments to the request                               *)
(***************************************************************************)
\* A user enters a command; a is what is remembered of a list.
Enter(u, c, a) ==
  /\ ~waiting[u] /\ runs < MaxRuns
  /\ runs' = runs + 1
  /\ run' = [run EXCEPT ![u] = runs']
  /\ command' = [command EXCEPT ![u] = c]
  /\ shown' = [shown EXCEPT ![u] = {}]
  /\ asked' = [asked EXCEPT ![u] = a]
  /\ UNCHANGED <<service, now, created, reply, acked>>

Send(u, c, window, a) ==
  /\ Enter(u, c, a)
  /\ waiting' = [waiting EXCEPT ![u] = TRUE]
  /\ exit' = [exit EXCEPT ![u] = "none"]
  /\ requests' = requests \cup {<<u, runs', c, window>>}

\* The command ends without a request.
Return(u, c, how) ==
  /\ Enter(u, c, NotAsked)
  /\ exit' = [exit EXCEPT ![u] = how]
  /\ UNCHANGED <<waiting, requests>>

\* Without a command main shows the usage and exits with 1.  With an unknown
\* command, or arguments that do not parse, it shows the usage and exits with 0.
usage(u) == \E how \in {"usage", "error"} : Return(u, "none", how)

\* deploy fails at once if it needs to know the current user and cannot.
deploy(u) == Send(u, "deploy", NoWindow, NotAsked) \/ Return(u, "deploy", "error")

\* Unix(): a moment is sent as the second that it lies in.
Unix(t) == t - (t % Second)

\* Mutant of Window: the two numbers of the request are swapped.
WindowSwapped(time, since) == <<Unix(time), Unix(time - since)>>

\* from and through, by what the user's clock says.
Window(time, since) == <<Unix(time - since), Unix(time)>>

list(u) ==
  \E since \in Sinces, off \in (-Skew)..Skew :
    Send(u, "list", Window(now + off, since), [time |-> now, since |-> since, told |-> acked.deployments])

events(u) ==
  \E since \in Sinces, off \in (-Skew)..Skew :
    Send(u, "events", Window(now + off, since), NotAsked)

logs(u) == Send(u, "logs", NoWindow, NotAsked)

\* With a file name config sets the configuration; loadConfig fails on a file
\* that it cannot read or decode in the format its extension stands for.
config(u) ==
  \/ Send(u, "get", NoWindow, NotAsked)
  \/ Send(u, "set", NoWindow, NotAsked)
  \/ Return(u, "set", "error")

(***************************************************************************)
(* The service and the network (external)                                  *)
(***************************************************************************)
\* The answer to a request; nobody receives it if the command has given up.
Answer(r, status, body) ==
  /\ reply' = IF waiting[r[1]] /\ run[r[1]] = r[2]
                THEN [reply EXCEPT ![r[1]] = [status |-> status, body |-> body]]
                ELSE reply
  /\ requests' = requests \ {r}
  /\ UNCHANGED <<now, acked, shell>>

\* A deployment or a configuration is accepted; the answer may still be an error.
Accept(r) ==
  /\ service' = CASE r[3] = "deploy" -> [service EXCEPT !.deployments = @ \cup {r[2]}]
                  [] r[3] = "set" -> [service EXCEPT !.config = @ + 1]
  /\ created' = IF r[3] = "deploy" THEN [created EXCEPT ![r[2]] = now] ELSE created
  /\ \E status \in {204, 500} : Answer(r, status, service')

\* The deployments created in the window that the request asks for.
Listed(r) ==
  [service EXCEPT !.deployments = {d \in @ : r[4][1] <= created[d] /\ created[d] <= r[4][2]}]

\* Reading the list, the configuration if there is one, or the log of a
\* deployment, which may not exist.
Read(r) ==
  /\ \E status \in {200, 404} :
       /\ status = 404 => r[3] = "logs" \/ (r[3] = "get" /\ service.config = 0)
       /\ status = 200 => ~(r[3] = "get" /\ service.config = 0)
       /\ Answer(r, status, IF r[3] = "list" THEN Listed(r) ELSE service)
  /\ UNCHANGED <<service, created>>

Refuse(r) == Answer(r, 500, Nothing) /\ UNCHANGED <<service, created>>

Handle(r) ==
  \/ r[3] \in Writing /\ Accept(r)
  \/ r[3] \notin Writing /\ Read(r)
  \/ Refuse(r)

(***************************************************************************)
(* client.go: from the answer to the exit status                           *)
(***************************************************************************)
\* The command prints what it has to show and ends.  If its request is still on
\* its way and only reads, nobody will ever notice whether it arrives.
Exit(u, how, what) ==
  /\ requests' = {r \in requests : r[1] = u => r[3] \in Writing}
  /\ waiting' = [waiting EXCEPT ![u] = FALSE]
  /\ reply' = [reply EXCEPT ![u] = NoReply]
  /\ exit' = [exit EXCEPT ![u] = how]
  /\ shown' = [shown EXCEPT ![u] = what]
  /\ UNCHANGED <<service, now, created, runs, run, command, asked>>

\* Mutant of ConnectionLost: the error is dropped and the command just returns.
ConnectionLostQuietly(u) == waiting[u] /\ Exit(u, "none", {}) /\ UNCHANGED acked

\* http.DefaultClient.Do fails, or the body breaks off.
ConnectionLost(u) == waiting[u] /\ Exit(u, "error", {}) /\ UNCHANGED acked

Received(u, c) == waiting[u] /\ command[u] = c /\ reply[u].status # 0

\* Mutant of Deploy: the status is not looked at.
DeployUnchecked(u) ==
  /\ Received(u, "deploy")
  /\ Exit(u, "ok", {})
  /\ acked' = [acked EXCEPT !.deployments = @ \cup {run[u]}]

Deploy(u) ==
  /\ Received(u, "deploy")
  /\ \/ /\ reply[u].status = 204 /\ Exit(u, "ok", {})
        /\ acked' = [acked EXCEPT !.deployments = @ \cup {run[u]}]
     \/ reply[u].status # 204 /\ Exit(u, "error", {}) /\ UNCHANGED acked

SetConfig(u) ==
  /\ Received(u, "set")
  /\ \/ /\ reply[u].status = 204 /\ Exit(u, "ok", {})
        /\ acked' = [acked EXCEPT !.config = IF reply[u].body.config > @ THEN reply[u].body.config ELSE @]
     \/ reply[u].status # 204 /\ Exit(u, "error", {}) /\ UNCHANGED acked

GetConfig(u) ==
  /\ Received(u, "get")
  /\ \/ reply[u].status = 200 /\ Exit(u, "ok", {})
     \/ reply[u].status = 404 /\ Exit(u, "noConfig", {})
     \/ reply[u].status \notin {200, 404} /\ Exit(u, "error", {})
  /\ UNCHANGED acked

\* GetDeployments, GetEvents and GetLogs: only an answer with status 200 is
\* printed; what events and logs look like is not known to the client.
GetBody(u, c, what) ==
  /\ Received(u, c)
  /\ \/ reply[u].status = 200 /\ Exit(u, "ok", what)
     \/ reply[u].status # 200 /\ Exit(u, "error", {})
  /\ UNCHANGED acked

GetDeployments(u) == GetBody(u, "list", reply[u].body.deployments)
GetEvents(u) == GetBody(u, "events", {})
GetLogs(u) == GetBody(u, "logs", {})

Cli(u) == usage(u) \/ deploy(u) \/ list(u) \/ events(u) \/ logs(u) \/ config(u)

Client(u) ==
  \/ Deploy(u) \/ GetDeployments(u) \/ GetEvents(u) \/ GetLogs(u)
  \/ GetConfig(u) \/ SetConfig(u) \/ ConnectionLost(u)

\* Time passes.
Tick ==
  /\ now < MaxTime /\ now' = now + 1
  /\ UNCHANGED <<service, created, requests, reply, acked, shell>>

Next ==
  \/ Tick
  \/ \E u \in Users : Cli(u) \/ Client(u)
  \/ \E r \in requests : Handle(r)

Spec == Init /\ [][Next]_vars

(***************************************************************************)
(* Properties                                                              *)
(***************************************************************************)
TypeOK ==
  /\ service \in View
  /\ now \in 0..MaxTime
  /\ created \in [Deployments -> 0..MaxTime]
  /\ requests \subseteq Users \X (1..MaxRuns) \X Commands \X (Int \X Int)
  /\ runs \in 0..MaxRuns
  /\ run \in [Users -> 0..runs]
  /\ waiting \in [Users -> BOOLEAN]
  /\ command \in [Users -> Commands \cup {"none"}]
  /\ reply \in [Users -> [status : {0, 200, 204, 404, 500}, body : View]]
  /\ exit \in [Users -> {"none", "usage", "ok", "noConfig", "error"}]
  /\ shown \in [Users -> SUBSET Deployments]
  /\ acked \in View
  /\ asked \in [Users -> [time : 0..MaxTime, since : Nat, told : SUBSET Deployments]]
  /\ \A u \in Users : waiting[u] \/ run[u] = 0 <=> exit[u] = "none"

\* A deployment or a configuration that a command reported as done (client.go:49
\* and 130) has been accepted by the service, although errors, lost answers and
\* requests that arrive after their command has given up are about.
AcknowledgedIsDone ==
  acked.deployments \subseteq service.deployments /\ acked.config <= service.config

\* How old deployment d was when u's list began.
Age(u, d) == asked[u].time - created[d]

\* A list of deployments is right for u: it has every deployment that somebody
\* was told of before u asked, unless that is less than a second old or reaches
\* back further than -since, and none that is a second too old; a wrong clock of
\* the user may shift both ends.
RightList(u, ds) ==
  /\ \A d \in asked[u].told : Age(u, d) \in (Second + Skew)..(asked[u].since - Skew) => d \in ds
  /\ \A d \in ds : Age(u, d) < asked[u].since + Second + Skew

\* A list that succeeds (cli.go:119-134, client.go:56-75) is right, although from
\* and through are rounded down to seconds of the user's own clock, deployments
\* are made at the same time and requests arrive late.  Nothing is said of the
\* deployments of the last second: through excludes them.
ListIsRight ==
  \A u \in Users :
    ~waiting[u] /\ command[u] = "list" /\ exit[u] = "ok" => RightList(u, shown[u])
===============================================================================
