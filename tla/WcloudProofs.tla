----------------------------- MODULE WcloudProofs -----------------------------
(***************************************************************************)
(* Proofs about the command line client of the deployment service, for any *)
(* users, any number of commands, any length of a second and any error of  *)
(* the users' clocks.                                                      *)
(***************************************************************************)
EXTENDS Wcloud, TLAPS

\* Everything in v is also in w: the service only ever adds.
Within(v, w) == v.deployments \subseteq w.deployments /\ v.config <= w.config

\* The window of u's list: it reaches back as far as u wants and not much
\* further, and leaves out little of what is new.
FitsWindow(u, w) ==
  /\ w[1] <= asked[u].time + Skew - asked[u].since
  /\ asked[u].time < w[1] + Skew + asked[u].since + Second
  /\ asked[u].time < w[2] + Skew + Second

\* A request for which somebody waits is the command that is running.  No two
\* requests have the same number, and what a request asks for is not done yet.
RequestInv ==
  /\ \A r \in requests :
       /\ r[2] <= runs /\ r[2] \notin service.deployments
       /\ waiting[r[1]] /\ run[r[1]] = r[2] => command[r[1]] = r[3]
       /\ waiting[r[1]] /\ run[r[1]] = r[2] /\ r[3] = "list" => FitsWindow(r[1], r[4])
  /\ \A r, q \in requests : r[2] = q[2] => r = q
  /\ \A d \in service.deployments : d <= runs

\* An answer says what the service held when it handled the request; a list is
\* right when it is made and stays so.
ReplyInv ==
  \A u \in Users :
    /\ ~waiting[u] => reply[u].status = 0
    /\ asked[u].told \subseteq acked.deployments
    /\ shown[u] \subseteq service.deployments
    /\ Within(reply[u].body, service)
    /\ waiting[u] /\ reply[u].status = 204 /\ command[u] = "deploy" => run[u] \in service.deployments
    /\ waiting[u] /\ reply[u].status = 200 /\ command[u] = "list" =>
         RightList(u, reply[u].body.deployments)

\* A command that waits has been started.
Started == \A u \in Users : waiting[u] => run[u] # 0

WcloudInv ==
  /\ Within(acked, service)
  /\ RequestInv
  /\ ReplyInv
  /\ ListIsRight

Windows == Int \X Int
Questions == [time : 0..MaxTime, since : Nat, told : SUBSET Deployments]
Replies == [status : {0, 200, 204, 404, 500}, body : View]

\* Rounding down to a second goes back by less than a second.
LEMMA UnixRounds ==
  ASSUME NEW t \in Int PROVE Unix(t) \in Int /\ Unix(t) <= t /\ t < Unix(t) + Second
  <1>1. Second \in Int /\ Second > 0
    BY WcloudAssumption
  <1>2. t % Second \in 0..(Second - 1)
    BY <1>1
  <1>3. QED
    BY <1>1, <1>2 DEF Unix

\* One command of the user, from the arguments to the request.
Begins(u) ==
  \E c \in Commands \cup {"none"}, a \in Questions :
    /\ Enter(u, c, a)
    /\ a.told \subseteq acked.deployments
    /\ \/ \E w \in Windows :
            /\ c # "none" /\ Send(u, c, w, a)
            /\ c = "list" => /\ w[1] <= a.time + Skew - a.since
                             /\ a.time < w[1] + Skew + a.since + Second
                             /\ a.time < w[2] + Skew + Second
       \/ \E how \in {"usage", "error"} : Return(u, c, how)

\* Every command of cli.go sends one request or ends at once, and list asks for
\* a window that fits.
LEMMA CliBegins ==
  ASSUME TypeOK, NEW u \in Users, Cli(u) PROVE Begins(u)
  <1>1. NotAsked \in Questions /\ NotAsked.told \subseteq acked.deployments /\ NoWindow \in Windows
    BY WcloudAssumption DEF NotAsked, NoWindow, Questions, Windows
  <1>2. ASSUME NEW c \in Commands \ {"list"}, NEW w \in Windows, Send(u, c, w, NotAsked) PROVE Begins(u)
    BY <1>1, <1>2 DEF Begins, Send, Commands
  <1>3. ASSUME NEW c \in Commands \cup {"none"}, NEW how \in {"usage", "error"}, Return(u, c, how)
        PROVE  Begins(u)
    BY <1>1, <1>3 DEF Begins, Return
  <1>4. ASSUME NEW since \in Sinces, NEW off \in (-Skew)..Skew
        PROVE  Window(now + off, since) \in Windows
    BY UnixRounds, WcloudAssumption DEF Window, Windows, TypeOK
  <1>5. CASE list(u)
    <2>1. PICK since \in Sinces, off \in (-Skew)..Skew :
            Send(u, "list", Window(now + off, since), [time |-> now, since |-> since, told |-> acked.deployments])
      BY <1>5 DEF list
    <2> DEFINE a == [time |-> now, since |-> since, told |-> acked.deployments]
               w == Window(now + off, since)
    <2>2. a \in Questions /\ a.told \subseteq acked.deployments /\ a.time = now /\ a.since = since
      BY WcloudAssumption DEF Questions, TypeOK, View
    <2>3. now \in Int /\ off \in Int /\ since \in Int /\ Skew \in Int /\ -Skew <= off /\ off <= Skew /\ Second \in Int
      BY WcloudAssumption DEF TypeOK
    <2>4. w[1] = Unix(now + off - since) /\ w[2] = Unix(now + off)
      BY <2>3 DEF Window, Unix
    <2>5. /\ Unix(now + off - since) <= now + off - since
          /\ now + off - since < Unix(now + off - since) + Second
          /\ now + off < Unix(now + off) + Second
          /\ Unix(now + off - since) \in Int /\ Unix(now + off) \in Int
      <3>1. now + off - since \in Int /\ now + off \in Int
        BY <2>3
      <3>2. QED
        BY <3>1, UnixRounds
    <2>6. /\ w[1] <= now + Skew - since
          /\ now < w[1] + Skew + since + Second
          /\ now < w[2] + Skew + Second
      BY <2>3, <2>4, <2>5
    <2>7. Enter(u, "list", a) /\ "list" \in Commands
      BY <2>1 DEF Send, Commands
    <2>8. w \in Windows
      BY <1>4
    <2> HIDE DEF a, w
    <2>9. Send(u, "list", w, a)
      BY <2>1 DEF a, w
    <2>10. QED
      BY <2>2, <2>6, <2>7, <2>8, <2>9 DEF Begins
  <1>6. CASE events(u)
    BY <1>2, <1>4, <1>6 DEF events, Commands
  <1>7. CASE usage(u) \/ deploy(u) \/ logs(u) \/ config(u)
    BY <1>1, <1>2, <1>3, <1>7 DEF usage, deploy, logs, config, Commands
  <1>8. QED
    BY <1>5, <1>6, <1>7 DEF Cli

\* An empty view is a view.
LEMMA NothingTyped == Nothing \in View /\ NoReply \in Replies
  BY DEF Nothing, View, NoReply, Replies

\* A command that ends prints deployments.
LEMMA ClientExits ==
  ASSUME TypeOK, NEW u \in Users, Client(u)
  PROVE  waiting[u] /\ \E how \in {"ok", "noConfig", "error"}, what \in {{}, reply[u].body.deployments} :
           /\ Exit(u, how, what)
           /\ command[u] = "list" /\ how = "ok" =>
                what = reply[u].body.deployments /\ reply[u].status = 200
  <1> USE DEF Received
  <1>1. CASE Deploy(u)
    BY <1>1 DEF Deploy
  <1>2. CASE SetConfig(u) \/ ConnectionLost(u)
    BY <1>2 DEF SetConfig, ConnectionLost
  <1>3. CASE GetConfig(u)
    BY <1>3 DEF GetConfig
  <1>4. CASE GetDeployments(u)
    BY <1>4 DEF GetDeployments, GetBody
  <1>5. CASE GetEvents(u) \/ GetLogs(u)
    BY <1>5 DEF GetEvents, GetLogs, GetBody
  <1>6. QED
    BY <1>1, <1>2, <1>3, <1>4, <1>5 DEF Client

\* What a command reports as done: a deployment of its own, or a configuration
\* that the service has told it of.
LEMMA ClientAcks ==
  ASSUME TypeOK, Started, NEW u \in Users, Client(u)
  PROVE  /\ acked' \in View
         /\ \/ acked' = acked
            \/ /\ command[u] = "deploy" /\ reply[u].status = 204
               /\ acked' = [acked EXCEPT !.deployments = @ \cup {run[u]}]
            \/ acked'.deployments = acked.deployments
               /\ acked'.config \in {acked.config, reply[u].body.config} /\ acked'.config >= acked.config
  <1> USE DEF Received
  <1>1. acked \in View /\ reply[u].body \in View
    BY DEF TypeOK
  <1>2. CASE Deploy(u)
    <2>1. run[u] \in Deployments
      BY <1>2, WcloudAssumption DEF Deploy, TypeOK, Started, Deployments
    <2>2. QED
      BY <1>2, <2>1, <1>1 DEF Deploy, View
  <1>3. CASE SetConfig(u)
    BY <1>3, <1>1 DEF SetConfig, View
  <1>4. CASE ConnectionLost(u) \/ GetConfig(u) \/ GetDeployments(u) \/ GetEvents(u) \/ GetLogs(u)
    BY <1>4, <1>1 DEF ConnectionLost, GetConfig, GetDeployments, GetEvents, GetLogs, GetBody
  <1>5. QED
    BY <1>2, <1>3, <1>4 DEF Client

\* Handling a request only adds to what the service holds, and what it adds is
\* the deployment of the request; the answer is of what the service holds.
Handled(r, status, body) ==
  /\ Answer(r, status, body)
  /\ body \in View /\ Within(body, service')
  /\ status = 204 /\ r[3] = "deploy" => r[2] \in service'.deployments
  /\ status = 200 /\ r[3] = "list" =>
       /\ UNCHANGED <<service, created>>
       /\ body.deployments = {d \in service.deployments : r[4][1] <= created[d] /\ created[d] <= r[4][2]}

\* Every way of handling a request is one of those.
LEMMA HandleAnswers ==
  ASSUME TypeOK, NEW r \in requests, Handle(r)
  PROVE  /\ service' \in View /\ Within(service, service')
         /\ service'.deployments \subseteq service.deployments \cup {r[2]}
         /\ created' \in [Deployments -> 0..MaxTime]
         /\ \A d \in Deployments \ {r[2]} : created'[d] = created[d]
         /\ \E status \in {200, 204, 404, 500}, body \in View : Handled(r, status, body)
  <1> USE DEF Within, Writing
  <1>1. service \in View /\ r[2] \in Deployments /\ created \in [Deployments -> 0..MaxTime] /\ now \in 0..MaxTime
    BY DEF TypeOK, Deployments
  <1>2. Nothing \in View /\ Within(Nothing, service)
    BY <1>1 DEF Nothing, View
  <1>3. CASE r[3] \in Writing /\ Accept(r)
    <2>1. service' \in View /\ Within(service, service')
          /\ service'.deployments \subseteq service.deployments \cup {r[2]}
          /\ (r[3] = "deploy" => r[2] \in service'.deployments)
      <3>1. CASE r[3] = "deploy"
        BY <1>1, <1>3, <3>1 DEF Accept, View
      <3>2. CASE r[3] = "set"
        BY <1>1, <1>3, <3>2 DEF Accept, View
      <3>3. QED
        BY <1>3, <3>1, <3>2
    <2>2. created' \in [Deployments -> 0..MaxTime] /\ \A d \in Deployments \ {r[2]} : created'[d] = created[d]
      BY <1>1, <1>3 DEF Accept
    <2>3. PICK status \in {204, 500} : Answer(r, status, service')
      BY <1>3 DEF Accept
    <2>4. Within(service', service')
      BY <2>1 DEF View
    <2>5. Handled(r, status, service')
      BY <1>3, <2>1, <2>3, <2>4 DEF Handled
    <2>6. QED
      BY <2>1, <2>2, <2>5
  <1>4. CASE r[3] \notin Writing /\ Read(r)
    <2>1. UNCHANGED <<service, created>> /\ Within(service, service)
      BY <1>1, <1>4 DEF Read, View
    <2>2. PICK status \in {200, 404} : Answer(r, status, IF r[3] = "list" THEN Listed(r) ELSE service)
      BY <1>4 DEF Read
    <2>3. Listed(r) \in View /\ Within(Listed(r), service)
          /\ Listed(r).deployments = {d \in service.deployments : r[4][1] <= created[d] /\ created[d] <= r[4][2]}
      BY <1>1 DEF Listed, View
    <2>4. CASE r[3] = "list"
      <3>1. Handled(r, status, Listed(r))
        BY <2>1, <2>2, <2>3, <2>4 DEF Handled
      <3>2. QED
        BY <1>1, <2>1, <2>3, <3>1
    <2>5. CASE r[3] # "list"
      <3>1. Handled(r, status, service)
        BY <1>1, <1>4, <2>1, <2>2, <2>5 DEF Handled
      <3>2. QED
        BY <1>1, <2>1, <3>1
    <2>6. QED
      BY <2>4, <2>5
  <1>5. CASE Refuse(r)
    <2>1. UNCHANGED <<service, created>> /\ Within(service, service)
      BY <1>1, <1>5 DEF Refuse, View
    <2>2. Handled(r, 500, Nothing)
      BY <1>2, <1>5, <2>1 DEF Refuse, Handled
    <2>3. QED
      BY <1>1, <1>2, <2>1, <2>2
  <1>6. QED
    BY <1>3, <1>4, <1>5 DEF Handle

\* Every step of a user or of the service keeps the types.
LEMMA TypePreserved ==
  ASSUME TypeOK, Started, [Next]_vars PROVE TypeOK' /\ Started'
  <1> USE NothingTyped, WcloudAssumption
  <1>1. ASSUME NEW u \in Users, Begins(u) PROVE TypeOK' /\ Started'
    <2>1. PICK c \in Commands \cup {"none"}, a \in Questions :
            /\ Enter(u, c, a)
            /\ \/ \E w \in Windows : c # "none" /\ Send(u, c, w, a)
               \/ \E how \in {"usage", "error"} : Return(u, c, how)
      BY <1>1 DEF Begins
    <2>2. /\ runs' \in 0..MaxRuns /\ runs' = runs + 1 /\ run' \in [Users -> 0..runs'] /\ run'[u] = runs'
          /\ \A x \in Users \ {u} : run'[x] = run[x]
      BY <2>1 DEF Enter, TypeOK
    <2>3. CASE \E w \in Windows : c # "none" /\ Send(u, c, w, a)
      BY <2>1, <2>2, <2>3 DEF Send, Enter, TypeOK, Started, Windows, Questions
    <2>4. CASE \E how \in {"usage", "error"} : Return(u, c, how)
      BY <2>1, <2>2, <2>4 DEF Return, Enter, TypeOK, Started, Questions
    <2>5. QED
      BY <2>1, <2>3, <2>4
  <1>2. ASSUME NEW u \in Users, Client(u) PROVE TypeOK' /\ Started'
    <2>1. acked' \in View
      BY <1>2, ClientAcks
    <2>2. PICK how \in {"ok", "noConfig", "error"}, what \in {{}, reply[u].body.deployments} :
            waiting[u] /\ Exit(u, how, what)
      BY <1>2, ClientExits
    <2>3. what \in SUBSET Deployments
      BY DEF TypeOK, View
    <2>4. QED
      BY <2>1, <2>2, <2>3 DEF Exit, TypeOK, Started, Replies
  <1>3. ASSUME NEW r \in requests, Handle(r) PROVE TypeOK' /\ Started'
    <2>1. PICK status \in {200, 204, 404, 500}, body \in View : Handled(r, status, body)
      BY <1>3, HandleAnswers
    <2>2. service' \in View /\ created' \in [Deployments -> 0..MaxTime]
      BY <1>3, HandleAnswers
    <2>3. [status |-> status, body |-> body] \in Replies
      BY DEF Replies
    <2>4. Answer(r, status, body)
      BY <2>1 DEF Handled
    <2>5. reply' \in [Users -> Replies]
      BY <2>3, <2>4 DEF Answer, TypeOK, Replies
    <2>6. QED
      BY <2>2, <2>4, <2>5 DEF Answer, TypeOK, Started, shell, Replies
  <1>4. CASE Tick
    BY <1>4 DEF Tick, shell, TypeOK, Started
  <1>5. CASE UNCHANGED vars
    BY <1>5 DEF vars, shell, TypeOK, Started
  <1>6. QED
    BY <1>1, <1>2, <1>3, <1>4, <1>5, CliBegins DEF Next

\* The types, and that a waiting command has been started.
LEMMA TypeInvariance == Spec => [](TypeOK /\ Started)
  <1>1. Init => TypeOK /\ Started
    BY NothingTyped, WcloudAssumption DEF Init, TypeOK, Started, NotAsked, Replies
  <1>2. QED
    BY <1>1, TypePreserved, PTL DEF Spec

\* The shapes of requests, answers and output, and that a command has an exit
\* status when and only when it has ended.
THEOREM TypeCorrect == Spec => []TypeOK
  BY TypeInvariance, PTL

\* The service never forgets what it has accepted, so what was within stays so.
LEMMA WithinTransitive ==
  ASSUME NEW v \in View, NEW w \in View, NEW x \in View, Within(v, w), Within(w, x)
  PROVE  Within(v, x)
  BY DEF Within, View

\* A command that begins has a number that no request and no deployment has;
\* requests of earlier commands of the user are nobody's any more.
LEMMA BeginsKeeps ==
  ASSUME TypeOK, TypeOK', Started, WcloudInv, NEW u \in Users, Begins(u)
  PROVE  WcloudInv'
  <1>1. PICK c \in Commands \cup {"none"}, a \in Questions :
          /\ Enter(u, c, a)
          /\ a.told \subseteq acked.deployments
          /\ \/ \E w \in Windows :
                  /\ c # "none" /\ Send(u, c, w, a)
                  /\ c = "list" => /\ w[1] <= a.time + Skew - a.since
                                   /\ a.time < w[1] + Skew + a.since + Second
                                   /\ a.time < w[2] + Skew + Second
             \/ \E how \in {"usage", "error"} : Return(u, c, how)
    BY DEF Begins
  <1>2. /\ UNCHANGED <<service, created, reply, acked>> /\ ~waiting[u]
        /\ runs' = runs + 1 /\ run'[u] = runs' /\ runs \in Nat
        /\ asked'[u] = a /\ command'[u] = c /\ shown'[u] = {}
    BY <1>1 DEF Enter, TypeOK
  <1>3. \A x \in Users \ {u} : /\ run'[x] = run[x] /\ command'[x] = command[x] /\ shown'[x] = shown[x]
                               /\ asked'[x] = asked[x] /\ waiting'[x] = waiting[x] /\ exit'[x] = exit[x]
    BY <1>1 DEF Send, Return, Enter, TypeOK
  <1>4. exit'[u] \in {"none", "usage", "error"}
    BY <1>1 DEF Send, Return, TypeOK
  <1>5. \/ requests' = requests
        \/ \E w \in Windows : /\ requests' = requests \cup {<<u, runs', c, w>>}
                              /\ c = "list" => FitsWindow(u, w)'
    BY <1>1, <1>2 DEF Send, Return, FitsWindow
  <1>6. Within(acked, service)'
    BY <1>2 DEF WcloudInv, Within
  <1>7. \A r \in requests : r[2] <= runs /\ r[2] \in Nat /\ r[2] \notin service.deployments /\ r[1] \in Users
    BY DEF TypeOK, WcloudInv, RequestInv
  <1>8. \A d \in service.deployments : d <= runs /\ d \in Nat
    BY DEF TypeOK, WcloudInv, RequestInv, View, Deployments
  <1>9. \A r \in requests' :
          /\ r[2] <= runs' /\ r[2] \notin service.deployments
          /\ waiting'[r[1]] /\ run'[r[1]] = r[2] => command'[r[1]] = r[3]
          /\ waiting'[r[1]] /\ run'[r[1]] = r[2] /\ r[3] = "list" => FitsWindow(r[1], r[4])'
    <2> SUFFICES ASSUME NEW r \in requests'
                 PROVE  /\ r[2] <= runs' /\ r[2] \notin service.deployments
                        /\ waiting'[r[1]] /\ run'[r[1]] = r[2] => command'[r[1]] = r[3]
                        /\ waiting'[r[1]] /\ run'[r[1]] = r[2] /\ r[3] = "list" => FitsWindow(r[1], r[4])'
      OBVIOUS
    <2>1. CASE r \in requests /\ r[1] # u
      <3>1. asked'[r[1]] = asked[r[1]] /\ run'[r[1]] = run[r[1]]
            /\ waiting'[r[1]] = waiting[r[1]] /\ command'[r[1]] = command[r[1]]
        BY <1>3, <1>7, <2>1
      <3>2. /\ waiting[r[1]] /\ run[r[1]] = r[2] => command[r[1]] = r[3]
            /\ waiting[r[1]] /\ run[r[1]] = r[2] /\ r[3] = "list" => FitsWindow(r[1], r[4])
        BY <2>1 DEF WcloudInv, RequestInv
      <3>3. QED
        BY <1>2, <1>7, <2>1, <3>1, <3>2 DEF FitsWindow
    <2>2. CASE r \in requests /\ r[1] = u
      BY <1>2, <1>7, <2>2
    <2>3. CASE r \notin requests
      BY <1>2, <1>5, <1>8, <2>3
    <2>4. QED
      BY <2>1, <2>2, <2>3
  <1>10. \A r, q \in requests' : r[2] = q[2] => r = q
    BY <1>2, <1>5, <1>7 DEF WcloudInv, RequestInv
  <1>11. RequestInv'
    BY <1>2, <1>8, <1>9, <1>10 DEF RequestInv
  <1>12. ReplyInv'
    <2>1. reply[u].status = 0 /\ Within(reply[u].body, service)
      BY <1>2 DEF WcloudInv, ReplyInv
    <2> SUFFICES ASSUME NEW x \in Users
        PROVE  /\ ~waiting'[x] => reply[x].status = 0
               /\ asked'[x].told \subseteq acked.deployments
               /\ shown'[x] \subseteq service.deployments
               /\ Within(reply[x].body, service)
               /\ waiting'[x] /\ reply[x].status = 204 /\ command'[x] = "deploy" => run'[x] \in service.deployments
               /\ waiting'[x] /\ reply[x].status = 200 /\ command'[x] = "list" =>
                    RightList(x, reply[x].body.deployments)'
      BY <1>2 DEF ReplyInv, Within
    <2>2. CASE x = u
      BY <1>1, <1>2, <2>1, <2>2
    <2>3. CASE x # u
      BY <1>2, <1>3, <2>3 DEF WcloudInv, ReplyInv, RightList, Age
    <2>4. QED
      BY <2>2, <2>3
  <1>13. ListIsRight'
    BY <1>2, <1>3, <1>4 DEF WcloudInv, ListIsRight, RightList, Age
  <1>14. QED
    BY <1>6, <1>11, <1>12, <1>13 DEF WcloudInv

\* What a command reports as done had been accepted.
LEMMA AcksAreWithin ==
  ASSUME TypeOK, Started, WcloudInv, NEW u \in Users, Client(u)
  PROVE  Within(acked', service) /\ Within(acked, acked') /\ acked' \in View
  <1>1. waiting[u] /\ acked' \in View
    BY ClientExits, ClientAcks
  <1>2. acked \in View /\ service \in View /\ reply[u].body \in View
    BY DEF TypeOK
  <1>3. Within(acked, service) /\ Within(reply[u].body, service)
    BY DEF WcloudInv, ReplyInv
  <1>4. CASE acked' = acked
    BY <1>2, <1>3, <1>4 DEF Within, View
  <1>5. CASE /\ command[u] = "deploy" /\ reply[u].status = 204
             /\ acked' = [acked EXCEPT !.deployments = @ \cup {run[u]}]
    <2>1. run[u] \in service.deployments
      BY <1>1, <1>5 DEF WcloudInv, ReplyInv
    <2>2. QED
      BY <1>2, <1>3, <1>5, <2>1 DEF Within, View
  <1>6. CASE acked'.deployments = acked.deployments
             /\ acked'.config \in {acked.config, reply[u].body.config} /\ acked'.config >= acked.config
    BY <1>1, <1>2, <1>3, <1>6 DEF Within, View
  <1>7. QED
    BY <1>1, <1>4, <1>5, <1>6, ClientAcks

\* A command that ends keeps the invariant: a list shows what its answer said.
LEMMA ClientKeeps ==
  ASSUME TypeOK, TypeOK', Started, WcloudInv, NEW u \in Users, Client(u)
  PROVE  WcloudInv'
  <1>1. PICK how \in {"ok", "noConfig", "error"}, what \in {{}, reply[u].body.deployments} :
          /\ waiting[u] /\ Exit(u, how, what)
          /\ command[u] = "list" /\ how = "ok" => what = reply[u].body.deployments /\ reply[u].status = 200
    BY ClientExits
  <1>2. Within(acked', service) /\ Within(acked, acked') /\ acked' \in View
    BY AcksAreWithin
  <1>3. /\ UNCHANGED <<service, created, runs, run, command, asked>> /\ requests' \subseteq requests
        /\ waiting'[u] = FALSE /\ reply'[u] = NoReply /\ exit'[u] = how /\ shown'[u] = what
        /\ \A x \in Users \ {u} : /\ waiting'[x] = waiting[x] /\ reply'[x] = reply[x]
                                  /\ exit'[x] = exit[x] /\ shown'[x] = shown[x]
    BY <1>1 DEF Exit, TypeOK
  <1>4. Within(acked, service)'
    BY <1>2, <1>3 DEF Within
  <1>5. RequestInv'
    <2>1. \A r \in requests : waiting'[r[1]] => waiting[r[1]]
      BY <1>1, <1>3 DEF TypeOK
    <2>2. QED
      BY <1>3, <2>1 DEF WcloudInv, RequestInv, FitsWindow
  <1>6. what \subseteq service.deployments
    BY DEF WcloudInv, ReplyInv, Within
  <1>7. ReplyInv'
    <2>1. acked.deployments \subseteq acked'.deployments
      BY <1>2 DEF Within
    <2>2. Within(Nothing, service)
      BY DEF Within, Nothing, View, TypeOK
    <2> SUFFICES ASSUME NEW x \in Users
        PROVE  /\ ~waiting'[x] => reply'[x].status = 0
               /\ asked[x].told \subseteq acked'.deployments
               /\ shown'[x] \subseteq service.deployments
               /\ Within(reply'[x].body, service)
               /\ waiting'[x] /\ reply'[x].status = 204 /\ command[x] = "deploy" => run[x] \in service.deployments
               /\ waiting'[x] /\ reply'[x].status = 200 /\ command[x] = "list" =>
                    RightList(x, reply[x].body.deployments)
      BY <1>3 DEF ReplyInv, Within, RightList, Age
    <2>3. asked[x].told \subseteq acked'.deployments
      BY <2>1 DEF WcloudInv, ReplyInv
    <2>4. CASE x = u
      BY <1>3, <1>6, <2>2, <2>3, <2>4 DEF NoReply
    <2>5. CASE x # u
      BY <1>3, <2>3, <2>5 DEF WcloudInv, ReplyInv
    <2>6. QED
      BY <2>4, <2>5
  <1>8. command[u] = "list" /\ how = "ok" => RightList(u, what)
    BY <1>1 DEF WcloudInv, ReplyInv
  <1>9. ListIsRight'
    BY <1>3, <1>8 DEF WcloudInv, ListIsRight, RightList, Age
  <1>10. QED
    BY <1>4, <1>5, <1>7, <1>9 DEF WcloudInv

\* A list made of a window that fits is right.
LEMMA ListedRight ==
  ASSUME TypeOK, NEW u \in Users, NEW w \in Windows, FitsWindow(u, w),
         asked[u].told \subseteq service.deployments
  PROVE  RightList(u, {d \in service.deployments : w[1] <= created[d] /\ created[d] <= w[2]})
  <1>1. \A d \in service.deployments : created[d] \in Int
    BY WcloudAssumption DEF TypeOK, View
  <1>2. asked[u].time \in Int /\ asked[u].since \in Int /\ w[1] \in Int /\ w[2] \in Int /\ Second \in Int /\ Skew \in Int
    BY WcloudAssumption DEF TypeOK, Windows
  <1>3. ASSUME NEW d \in asked[u].told, Age(u, d) \in (Second + Skew)..(asked[u].since - Skew)
        PROVE  w[1] <= created[d] /\ created[d] <= w[2]
    <2>1. created[d] \in Int /\ Age(u, d) = asked[u].time - created[d]
      BY <1>1 DEF Age
    <2>2. QED
      BY <1>2, <1>3, <2>1 DEF FitsWindow
  <1>4. ASSUME NEW d \in service.deployments, w[1] <= created[d], created[d] <= w[2]
        PROVE  Age(u, d) < asked[u].since + Second + Skew
    <2>1. created[d] \in Int /\ Age(u, d) = asked[u].time - created[d]
      BY <1>1 DEF Age
    <2>2. QED
      BY <1>2, <1>4, <2>1 DEF FitsWindow
  <1>5. QED
    BY <1>3, <1>4 DEF RightList

\* Handling a request keeps the invariant: what it creates is in no list yet.
LEMMA HandleKeeps ==
  ASSUME TypeOK, TypeOK', WcloudInv, NEW r \in requests, Handle(r)
  PROVE  WcloudInv'
  <1>1. /\ service' \in View /\ service \in View /\ Within(service, service')
        /\ service'.deployments \subseteq service.deployments \cup {r[2]}
        /\ \A d \in Deployments \ {r[2]} : created'[d] = created[d]
    BY HandleAnswers DEF TypeOK
  <1>2. PICK status \in {200, 204, 404, 500}, body \in View : Handled(r, status, body)
    BY HandleAnswers
  <1>3. /\ UNCHANGED <<acked, runs, run, waiting, command, exit, shown, asked>>
        /\ requests' = requests \ {r}
        /\ reply' = IF waiting[r[1]] /\ run[r[1]] = r[2]
                      THEN [reply EXCEPT ![r[1]] = [status |-> status, body |-> body]]
                      ELSE reply
    BY <1>2 DEF Handled, Answer, shell
  <1>4. Within(acked, service')
    BY <1>1, WithinTransitive DEF WcloudInv, TypeOK
  <1>5. \A d \in service.deployments : d \in service'.deployments /\ created'[d] = created[d]
    <2>1. r[2] \notin service.deployments /\ service.deployments \subseteq Deployments
      BY <1>1 DEF WcloudInv, RequestInv, View
    <2>2. QED
      BY <1>1, <2>1 DEF Within
  <1>6. \A u \in Users : asked[u].told \subseteq service.deployments
    BY DEF WcloudInv, ReplyInv, Within
  <1>7. ASSUME NEW u \in Users, NEW ds, ds \subseteq service.deployments, RightList(u, ds)
        PROVE  RightList(u, ds)'
    <2>1. \A d \in asked[u].told \cup ds : created'[d] = created[d]
      BY <1>5, <1>6, <1>7
    <2>2. QED
      BY <1>3, <1>7, <2>1 DEF RightList, Age
  <1>8. RequestInv'
    <2>1. \A q \in requests' : q \in requests /\ q[2] # r[2]
      BY <1>3 DEF WcloudInv, RequestInv
    <2>2. r[2] <= runs
      BY DEF WcloudInv, RequestInv
    <2>3. \A q \in requests' : q[2] \notin service'.deployments
      BY <1>1, <2>1 DEF WcloudInv, RequestInv
    <2>4. \A d \in service'.deployments : d <= runs
      BY <1>1, <2>2 DEF WcloudInv, RequestInv
    <2>5. QED
      BY <1>3, <2>1, <2>3, <2>4 DEF WcloudInv, RequestInv, FitsWindow
  <1>9. ASSUME NEW u \in Users
        PROVE  /\ ~waiting[u] => reply'[u].status = 0
               /\ asked[u].told \subseteq acked.deployments
               /\ shown[u] \subseteq service'.deployments
               /\ Within(reply'[u].body, service')
               /\ waiting[u] /\ reply'[u].status = 204 /\ command[u] = "deploy" => run[u] \in service'.deployments
               /\ waiting[u] /\ reply'[u].status = 200 /\ command[u] = "list" =>
                    RightList(u, reply[u].body.deployments)'
    <2>1. asked[u].told \subseteq acked.deployments /\ shown[u] \subseteq service'.deployments
      BY <1>5 DEF WcloudInv, ReplyInv
    <2>2. CASE reply'[u] = reply[u]
      <3>1. Within(reply[u].body, service) /\ reply[u].body \in View
        BY DEF WcloudInv, ReplyInv, TypeOK
      <3>2. Within(reply[u].body, service')
        BY <1>1, <3>1, WithinTransitive
      <3>3. reply[u].body.deployments \subseteq service.deployments
        BY <3>1 DEF Within
      <3> DEFINE ds == reply[u].body.deployments
      <3>4. RightList(u, ds) => \A e \in {ds} : RightList(u, e)'
        BY <1>7, <3>3
      <3>5. waiting[u] /\ reply'[u].status = 200 /\ command[u] = "list" => RightList(u, reply[u].body.deployments)'
        BY <2>2, <3>4 DEF WcloudInv, ReplyInv
      <3>6. QED
        BY <1>5, <2>1, <2>2, <3>2, <3>5 DEF WcloudInv, ReplyInv
    <2>3. CASE reply'[u] # reply[u]
      <3>1. u = r[1] /\ waiting[u] /\ run[u] = r[2] /\ reply'[u] = [status |-> status, body |-> body]
        BY <1>3, <2>3 DEF TypeOK
      <3>2. command[u] = r[3] /\ (r[3] = "list" => FitsWindow(u, r[4]))
        BY <3>1 DEF WcloudInv, RequestInv
      <3>3. Within(body, service') /\ (status = 204 /\ r[3] = "deploy" => r[2] \in service'.deployments)
        BY <1>2 DEF Handled
      <3>4. ASSUME status = 200, r[3] = "list" PROVE RightList(u, body.deployments)'
        <4>1. body.deployments = {d \in service.deployments : r[4][1] <= created[d] /\ created[d] <= r[4][2]}
          BY <1>2, <3>4 DEF Handled
        <4>2. r[4] \in Windows
          BY DEF TypeOK, Windows
        <4>3. RightList(u, body.deployments)
          BY <1>6, <3>2, <3>4, <4>1, <4>2, ListedRight
        <4>4. body.deployments \subseteq service.deployments
          BY <4>1
        <4>5. QED
          BY <1>7, <4>3, <4>4
      <3>5. reply'[u].status = status /\ reply'[u].body = body
        BY <3>1
      <3>6. status = 200 /\ r[3] = "list" => RightList(u, reply[u].body.deployments)'
        BY <3>4, <3>5
      <3>7. QED
        BY <2>1, <3>1, <3>2, <3>3, <3>5, <3>6
    <2>4. QED
      BY <2>2, <2>3
  <1>10. ReplyInv'
    BY <1>3, <1>9 DEF ReplyInv, Within
  <1>11. ListIsRight'
    <2> SUFFICES ASSUME NEW u \in Users, ~waiting[u], command[u] = "list", exit[u] = "ok"
                 PROVE  RightList(u, shown[u])'
      BY <1>3 DEF ListIsRight
    <2> DEFINE ds == shown[u]
    <2>1. RightList(u, ds) /\ ds \subseteq service.deployments
      BY DEF WcloudInv, ListIsRight, ReplyInv
    <2>2. \A e \in {ds} : RightList(u, e)'
      BY <1>7, <2>1
    <2>3. QED
      BY <1>3, <2>2
  <1>12. QED
    BY <1>3, <1>4, <1>8, <1>10, <1>11 DEF WcloudInv, Within

\* The invariant holds whatever the users do and the network loses.
LEMMA Invariance == Spec => [](TypeOK /\ WcloudInv)
  <1>1. Init => WcloudInv
    BY DEF Init, WcloudInv, RequestInv, ReplyInv, ListIsRight, Within, Nothing, NoReply, NotAsked
  <1>2. TypeOK /\ TypeOK' /\ Started /\ WcloudInv /\ [Next]_vars => WcloudInv'
    <2> SUFFICES ASSUME TypeOK, TypeOK', Started, WcloudInv, [Next]_vars PROVE WcloudInv'
      OBVIOUS
    <2>1. CASE UNCHANGED vars \/ Tick
      BY <2>1 DEF vars, Tick, shell, WcloudInv, RequestInv, ReplyInv, FitsWindow, ListIsRight, RightList, Age, Within
    <2>2. QED
      BY <2>1, CliBegins, BeginsKeeps, ClientKeeps, HandleKeeps DEF Next
  <1>3. QED
    BY <1>1, <1>2, TypeInvariance, PTL DEF Spec

\* What a command reports as done (client.go:49 and 130) the service has done.
THEOREM AcknowledgedDone == Spec => []AcknowledgedIsDone
  <1>1. WcloudInv => AcknowledgedIsDone
    BY DEF WcloudInv, Within, AcknowledgedIsDone
  <1>2. QED
    BY <1>1, Invariance, PTL

\* A list that succeeds (cli.go:119-134, client.go:56-75) has every deployment
\* reported before it began whose age lies between a second and -since, give or
\* take the error of the user's clock, and none older by a second or more.
THEOREM ListsAreRight == Spec => []ListIsRight
  <1>1. WcloudInv => ListIsRight
    BY DEF WcloudInv
  <1>2. QED
    BY <1>1, Invariance, PTL
================================================================================
