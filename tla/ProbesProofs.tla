---------------------------- MODULE ProbesProofs ----------------------------
(***************************************************************************)
(* Proofs about Probes, for any providers, memory and shares.              *)
(***************************************************************************)
EXTENDS Probes, Induction, FiniteSetTheorems, TLAPS

-----------------------------------------------------------------------------
(* Levels and alerts of a single balance.                                  *)

\* Whatever share is used, it is marked as its alert says.
LEMMA AlarmOfLevel ==
    ASSUME NEW what, NEW share
    PROVE  \/ /\ Level(share) = "critical"
              /\ Alarm(what, share) = {[of |-> what, level |-> "critical"]}
           \/ /\ Level(share) = "warn"
              /\ Alarm(what, share) = {[of |-> what, level |-> "warn"]}
           \/ Level(share) = "ok" /\ Alarm(what, share) = {}
BY DEF Level, Alarm

\* The levels of nothing, of several sets together, and of one mark.
LEMMA LevelsOfNone == \A level : Levels({}, level) = {}
BY DEF Levels

LEMMA LevelsOfBoth ==
    ASSUME NEW s, NEW t, NEW level
    PROVE  Levels(s \cup t, level) = Levels(s, level) \cup Levels(t, level)
BY DEF Levels

LEMMA LevelsOfOne ==
    ASSUME NEW what, NEW l, NEW level
    PROVE  Levels({[of |-> what, level |-> l]}, level)
                = IF l = level THEN {what} ELSE {}
<1> DEFINE j == [of |-> what, level |-> l]
<1>1. j.of = what /\ j.level = l
  OBVIOUS
<1> HIDE DEF j
<1> QED
  BY <1>1 DEF Levels, j

\* A share and its alert say the same.
LEMMA ShareAlarms ==
    ASSUME NEW what, NEW share
    PROVE  \A level \in {"critical", "warn"} :
             /\ Levels({[of |-> what, level |-> Level(share)]}, level)
                    = Levels(Alarm(what, share), level)
             /\ Levels(Alarm(what, share), level) \subseteq {what}
<1>1. ASSUME NEW l \in {"critical", "warn"},
             Level(share) = l, Alarm(what, share) = {[of |-> what, level |-> l]},
             NEW level
      PROVE  /\ Levels({[of |-> what, level |-> Level(share)]}, level)
                    = Levels(Alarm(what, share), level)
             /\ Levels(Alarm(what, share), level) \subseteq {what}
  <2>1. Levels({[of |-> what, level |-> l]}, level) = IF l = level THEN {what} ELSE {}
    BY LevelsOfOne
  <2> QED
    BY <1>1, <2>1
<1>2. ASSUME Level(share) = "ok", Alarm(what, share) = {},
             NEW level \in {"critical", "warn"}
      PROVE  /\ Levels({[of |-> what, level |-> Level(share)]}, level)
                    = Levels(Alarm(what, share), level)
             /\ Levels(Alarm(what, share), level) \subseteq {what}
  <2>1. Levels({[of |-> what, level |-> Level(share)]}, level) = {}
    BY <1>2, LevelsOfOne
  <2> QED
    BY <1>2, <2>1, LevelsOfNone
<1> QED
  BY <1>1, <1>2, AlarmOfLevel

\* A balance of an engine has an alert for what it marks.
LEMMA OmlxAlarms ==
    ASSUME NEW reply, NEW pools
    PROVE  AlarmsAgree(OmlxBalance(reply, pools))
<1> DEFINE pool == CHOOSE p \in pools : TRUE
           share == Share(pool.memory)
           loaded == IF pool.loaded = 0 THEN "warn" ELSE "ok"
           ill == IF reply.status = "healthy" THEN {}
                  ELSE {[of |-> "Engine", level |-> "critical"]}
           a == {[of |-> "Models", level |-> "ok"]}
           b == {[of |-> "Loaded", level |-> loaded]}
           c == {[of |-> "VRAM", level |-> Level(share)]}
           metrics == (a \cup b) \cup c
           alerts == Alarm("VRAM", share) \cup ill
<1>1. /\ OmlxBalance(reply, pools).metrics = metrics
      /\ OmlxBalance(reply, pools).alerts = alerts
  BY DEF OmlxBalance, Balance
<1>2. Levels(ill, "critical") \subseteq {"Engine"} /\ Levels(ill, "warn") = {}
  BY LevelsOfOne, LevelsOfNone
<1>3. /\ Levels(a, "critical") = {} /\ Levels(a, "warn") = {}
      /\ Levels(b, "critical") = {} /\ Levels(b, "warn") \subseteq {"Loaded"}
  BY LevelsOfOne
<1>4. \A level \in {"critical", "warn"} :
        /\ Levels(c, level) = Levels(Alarm("VRAM", share), level)
        /\ Levels(c, level) \subseteq {"VRAM"}
  BY ShareAlarms
<1> HIDE DEF a, b, c, ill, share
<1>5. ASSUME NEW level
      PROVE  /\ Levels(metrics, level)
                    = (Levels(a, level) \cup Levels(b, level)) \cup Levels(c, level)
             /\ Levels(alerts, level)
                    = Levels(Alarm("VRAM", share), level) \cup Levels(ill, level)
  <2> DEFINE ab == a \cup b
  <2>1. Levels(ab, level) = Levels(a, level) \cup Levels(b, level)
    BY LevelsOfBoth
  <2> HIDE DEF ab
  <2>2. Levels(ab \cup c, level) = Levels(ab, level) \cup Levels(c, level)
    BY LevelsOfBoth
  <2>3. Levels(alerts, level)
            = Levels(Alarm("VRAM", share), level) \cup Levels(ill, level)
    BY LevelsOfBoth
  <2> QED
    BY <2>1, <2>2, <2>3 DEF ab
<1> HIDE DEF metrics, alerts
<1>6. Levels(metrics, "critical") = Levels(alerts, "critical") \ {"Engine"}
  BY <1>2, <1>3, <1>4, <1>5
<1>7. Levels(metrics, "warn") \ {"Models", "Loaded"} = Levels(alerts, "warn")
  BY <1>2, <1>3, <1>4, <1>5
<1> QED
  BY <1>1, <1>6, <1>7 DEF AlarmsAgree

LEMMA CreditAlarms == ASSUME NEW left PROVE AlarmsAgree(CreditBalance(left))
<1>1. CASE left \subseteq {0}
  BY <1>1, LevelsOfOne, LevelsOfNone DEF CreditBalance, Balance, AlarmsAgree
<1>2. CASE ~(left \subseteq {0})
  BY <1>2, LevelsOfOne, LevelsOfNone DEF CreditBalance, Balance, AlarmsAgree
<1> QED
  BY <1>1, <1>2

LEMMA QuotaAlarms == ASSUME NEW reply PROVE AlarmsAgree(QuotaBalance(reply))
<1> DEFINE t == reply.tokens
           m == reply.mcp
           a == {[of |-> "Tokens", level |-> Level(t)]}
           b == {[of |-> "MCP", level |-> Level(m)]}
           metrics == a \cup b
           alerts == Alarm("Tokens", t) \cup Alarm("MCP", m)
<1>1. /\ QuotaBalance(reply).metrics = metrics
      /\ QuotaBalance(reply).alerts = alerts
  BY DEF QuotaBalance, Balance
<1> HIDE DEF t, m
<1>a. \A level \in {"critical", "warn"} :
        /\ Levels(a, level) = Levels(Alarm("Tokens", t), level)
        /\ Levels(Alarm("Tokens", t), level) \subseteq {"Tokens"}
  BY ShareAlarms
<1>b. \A level \in {"critical", "warn"} :
        /\ Levels(b, level) = Levels(Alarm("MCP", m), level)
        /\ Levels(Alarm("MCP", m), level) \subseteq {"MCP"}
  BY ShareAlarms
<1> HIDE DEF a, b
<1>3. \A level : /\ Levels(metrics, level) = Levels(a, level) \cup Levels(b, level)
                 /\ Levels(alerts, level) = Levels(Alarm("Tokens", t), level)
                                            \cup Levels(Alarm("MCP", m), level)
  BY LevelsOfBoth
<1> HIDE DEF metrics, alerts
<1>4. Levels(metrics, "critical") = Levels(alerts, "critical") \ {"Engine"}
  BY <1>a, <1>b, <1>3
<1>5. Levels(metrics, "warn") \ {"Models", "Loaded"} = Levels(alerts, "warn")
  BY <1>a, <1>b, <1>3
<1> QED
  BY <1>1, <1>4, <1>5 DEF AlarmsAgree

LEMMA ModelsAlarms ==
    ASSUME NEW status, NEW lists
    PROVE  AlarmsAgree(Balance(status, ModelsMetric(lists), {}))
<1>1. /\ Levels(ModelsMetric(lists), "critical") = {}
      /\ Levels(ModelsMetric(lists), "warn") \subseteq {"Models"}
  BY DEF Levels, ModelsMetric
<1> QED
  BY <1>1, LevelsOfNone DEF AlarmsAgree, Balance

LEMMA ProbedAlarms ==
    ASSUME NEW ok, NEW lists
    PROVE  AlarmsAgree(Probed(ok, lists))
<1>1. AlarmsAgree(Balance("offline", {}, {}))
  BY LevelsOfNone DEF AlarmsAgree, Balance
<1> QED
  BY <1>1, OmlxAlarms, ModelsAlarms DEF Probed

LEMMA AccountAlarms ==
    ASSUME NEW reply
    PROVE  \A balance \in Account(reply).balance : AlarmsAgree(balance)
BY OmlxAlarms, CreditAlarms, QuotaAlarms DEF Account, Shown, Failure

-----------------------------------------------------------------------------
(* What a task heard, and what it tells.                                   *)

\* StatusTrue, of what was heard.
Tells(all, status) ==
    LET answered == {h \in all : h.is # "refused"}
        obliged == {h \in answered : h.is \notin {"failed", "garbage"}}
    IN  /\ status = "online" => obliged # {} \/ [to |-> "health", is |-> "failed"] \in all
        /\ status = "error" => \E h \in obliged : h.is = "health"
        /\ status = "offline" =>
              \/ answered = {}
              \/ \A h \in answered :
                    h.is = "garbage" \/ (h.to = "models" /\ h.is = "failed")

\* The query for the account: the balance is what the account says.
LEMMA AccountTells ==
    ASSUME NEW name, Strategy(name) # "default", NEW reply \in Replies(name, "account")
    PROVE  \A balance \in Account(reply).balance :
                Tells({[to |-> "account", is |-> reply.is]}, balance.status)
<1> DEFINE h == [to |-> "account", is |-> reply.is]
<1>1. h.is = reply.is
  OBVIOUS
<1> HIDE DEF h
<1>2. CASE reply.is = "health"
  <2>1. \A balance \in Account(reply).balance : balance.status \in {"online", "error"}
    BY <1>2 DEF Account, Shown, Failure, OmlxBalance, Balance
  <2> QED
    BY <1>1, <1>2, <2>1 DEF Tells, h
<1>3. CASE reply.is \in {"credit", "quota"}
  <2>1. \A balance \in Account(reply).balance : balance.status = "online"
    BY <1>3 DEF Account, Shown, CreditBalance, QuotaBalance, Balance
  <2> QED
    BY <1>1, <1>3, <2>1 DEF Tells, h
<1>4. CASE reply.is \notin {"health", "credit", "quota"}
  BY <1>4 DEF Account, Shown, Failure
<1> QED
  BY <1>2, <1>3, <1>4

\* /health that said something: the balance is what it says.
LEMMA HealthTells ==
    ASSUME NEW reply, reply.is \in {"health", "blank"}
    PROVE  Tells({[to |-> "health", is |-> reply.is]}, Probed({reply}, {}).status)
<1> DEFINE h == [to |-> "health", is |-> reply.is]
<1>1. h.is = reply.is
  OBVIOUS
<1>2. Probed({reply}, {}).status \in {"online", "error"}
  BY DEF Probed, OmlxBalance, Balance
<1>3. reply.is = "blank" => Probed({reply}, {}).status = "online"
  BY DEF Probed, OmlxBalance, Balance
<1> HIDE DEF h
<1> QED
  BY <1>1, <1>2, <1>3 DEF Tells, h

\* `ok` is what is remembered of a /health that said nothing, if it was asked,
\* and `all` what was heard of it.
SaidNothing(ok, all) ==
    /\ \A reply \in ok : reply.is = "failed"
    /\ \A h \in all : h.to = "health" /\ h.is \in {"refused", "failed", "garbage"}
    /\ ok = {} => \A h \in all : h.is # "failed"
    /\ ok # {} => [to |-> "health", is |-> "failed"] \in all

\* The models, asked for after a /health that said nothing, or at once.
LEMMA ModelsTell ==
    ASSUME NEW ok, NEW all, SaidNothing(ok, all),
           NEW reply, reply.is \in {"refused", "failed", "garbage", "models"},
           NEW lists, lists = {} <=> reply.is # "models"
    PROVE  Tells(all \cup {[to |-> "models", is |-> reply.is]}, Probed(ok, lists).status)
<1> DEFINE h == [to |-> "models", is |-> reply.is]
<1>1. h.is = reply.is /\ h.to = "models"
  OBVIOUS
<1>2. {r \in ok : r.is = "health"} = {}
  BY DEF SaidNothing
<1>3. Probed(ok, lists).status = IF ok = {} /\ lists = {} THEN "offline" ELSE "online"
  BY <1>2 DEF Probed, Balance
<1> HIDE DEF h
<1> QED
  BY <1>1, <1>3 DEF Tells, SaidNothing, h

-----------------------------------------------------------------------------
(* The tasks.                                                              *)

\* What makes EntriesTrue inductive.  A task that has asked for nothing yet has
\* heard nothing; one that waits for the models remembers of /health only that
\* it failed; and one that has ended asks no more.
TaskInv(name) ==
    /\ at[name] \in {"idle", "account", "health", "models", "ended"}
    /\ at[name] # "ended" => entry[name] = {}
    /\ at[name] \in {"idle", "account", "health"} => heard[name] = {}
    /\ at[name] \in {"idle", "health"} => health[name] = {}
    /\ at[name] = "account" => Strategy(name) # "default"
    /\ at[name] = "models" => SaidNothing(health[name], heard[name])
    /\ at[name] = "ended" =>
        \E made : /\ entry[name] = {made}
                  /\ \A balance \in made.balance :
                        Tells(heard[name], balance.status) /\ AlarmsAgree(balance)

ProbesInv ==
    /\ at = [name \in Names |-> at[name]]
    /\ health = [name \in Names |-> health[name]]
    /\ entry = [name \in Names |-> entry[name]]
    /\ heard = [name \in Names |-> heard[name]]
    /\ \A name \in Names : TaskInv(name)
    /\ handler = "idle" => \A name \in Names : at[name] = "idle"

LEMMA ProbesInit == Init => ProbesInv
BY DEF Init, ProbesInv, TaskInv

\* What there is to hear.
LEMMA RepliesAre ==
    ASSUME NEW name
    PROVE  /\ \A reply \in Replies(name, "health") :
                reply.is \in {"refused", "failed", "garbage", "blank", "health"}
           /\ \A reply \in Replies(name, "models") :
                reply.is \in {"refused", "failed", "garbage", "models"}
<1>1. \A reply \in Silent : reply.is \in {"refused", "failed", "garbage"}
  BY DEF Silent
<1>2. \A reply \in HealthReplies :
            reply \in Silent \/ reply.is \in {"blank", "health"}
  <2>1. ASSUME NEW A, NEW B, NEW r \in [is : {"health"}, status : A, pools : B]
        PROVE  r.is = "health"
    OBVIOUS
  <2>2. \E A, B : HealthReplies = Silent \cup {[is |-> "blank"]}
                        \cup [is : {"health"}, status : A, pools : B]
    BY DEF HealthReplies
  <2> QED
    BY <2>1, <2>2
<1>3. \A reply \in ModelsReplies : reply \in Silent \/ reply.is = "models"
  BY DEF ModelsReplies
<1>4. Replies(name, "health") = HealthReplies /\ Replies(name, "models") = ModelsReplies
  BY DEF Replies
<1> QED
  BY <1>1, <1>2, <1>3, <1>4

\* A task that has heard a reply is as the invariant says.
LEMMA HearsKeeps ==
    ASSUME ProbesInv, NEW name \in Names, Hears(name)
    PROVE  TaskInv(name)'
<1>0. /\ at = [n \in Names |-> at[n]] /\ health = [n \in Names |-> health[n]]
      /\ entry = [n \in Names |-> entry[n]] /\ heard = [n \in Names |-> heard[n]]
  BY DEF ProbesInv
<1>1. PICK reply \in Replies(name, at[name]) :
        /\ heard' = [heard EXCEPT ![name] = @ \cup {[to |-> at[name], is |-> reply.is]}]
        /\ \/ /\ at[name] = "account"
              /\ Ends(name, Account(reply))
              /\ UNCHANGED health
           \/ /\ at[name] = "health"
              /\ health' = [health EXCEPT ![name] = HealthOk(reply)]
              /\ IF reply.is \in {"health", "blank"}
                 THEN Ends(name, Shown({Probed(HealthOk(reply), {})}))
                 ELSE /\ at' = [at EXCEPT ![name] = "models"]
                      /\ UNCHANGED entry
           \/ /\ at[name] = "models"
              /\ Ends(name, Shown({Probed(health[name],
                                          IF reply.is = "models" THEN {reply} ELSE {})}))
              /\ UNCHANGED health
  BY DEF Hears
<1>2. TaskInv(name)
  BY DEF ProbesInv
<1>a. ASSUME NEW made, at'[name] = "ended", entry'[name] = {made},
             \A balance \in made.balance :
                Tells(heard'[name], balance.status) /\ AlarmsAgree(balance)
      PROVE  TaskInv(name)'
  BY <1>a DEF TaskInv
<1>3. heard'[name] = heard[name] \cup {[to |-> at[name], is |-> reply.is]}
  BY <1>0, <1>1
<1>4. CASE at[name] = "account"
  <2>1. at'[name] = "ended" /\ entry'[name] = {Account(reply)}
    BY <1>0, <1>1, <1>4 DEF Ends
  <2>2. heard'[name] = {[to |-> "account", is |-> reply.is]}
    BY <1>2, <1>3, <1>4 DEF TaskInv
  <2>3. Strategy(name) # "default" /\ reply \in Replies(name, "account")
    BY <1>2, <1>4 DEF TaskInv
  <2>4. \A balance \in Account(reply).balance :
            Tells(heard'[name], balance.status) /\ AlarmsAgree(balance)
    BY <2>2, <2>3, AccountTells, AccountAlarms
  <2> QED
    BY <1>a, <2>1, <2>4
<1>5. CASE at[name] = "health" /\ reply.is \in {"health", "blank"}
  <2> DEFINE balance == Probed({reply}, {})
  <2>1. at'[name] = "ended" /\ entry'[name] = {Shown({balance})}
    BY <1>0, <1>1, <1>5 DEF Ends, HealthOk
  <2>2. heard'[name] = {[to |-> "health", is |-> reply.is]}
    BY <1>2, <1>3, <1>5 DEF TaskInv
  <2>3. Tells({[to |-> "health", is |-> reply.is]}, balance.status)
    BY <1>5, HealthTells
  <2>5. AlarmsAgree(balance)
    BY ProbedAlarms
  <2>4. Shown({balance}).balance = {balance}
    BY DEF Shown
  <2> HIDE DEF balance
  <2> QED
    BY <1>a, <2>1, <2>2, <2>3, <2>4, <2>5
<1>6. CASE at[name] = "health" /\ reply.is \notin {"health", "blank"}
  <2>1. /\ at'[name] = "models" /\ entry'[name] = entry[name]
        /\ health'[name] = HealthOk(reply)
    BY <1>0, <1>1, <1>6
  <2>2. heard'[name] = {[to |-> "health", is |-> reply.is]}
    BY <1>2, <1>3, <1>6 DEF TaskInv
  <2>3. reply.is \in {"refused", "failed", "garbage"}
    BY <1>1, <1>6, RepliesAre
  <2>4. health'[name] = IF reply.is = "failed" THEN {reply} ELSE {}
    BY <2>1, <2>3 DEF HealthOk
  <2>5. SaidNothing(health'[name], heard'[name])
    <3> DEFINE h == [to |-> "health", is |-> reply.is]
    <3>1. h.to = "health" /\ h.is = reply.is
      OBVIOUS
    <3> HIDE DEF h
    <3> QED
      BY <2>2, <2>3, <2>4, <3>1 DEF SaidNothing, h
  <2> QED
    BY <1>2, <1>6, <2>1, <2>5 DEF TaskInv
<1>7. CASE at[name] = "models"
  <2> DEFINE lists == IF reply.is = "models" THEN {reply} ELSE {}
             balance == Probed(health[name], lists)
  <2>1. at'[name] = "ended" /\ entry'[name] = {Shown({balance})}
    BY <1>0, <1>1, <1>7 DEF Ends
  <2>2. heard'[name] = heard[name] \cup {[to |-> "models", is |-> reply.is]}
    BY <1>3, <1>7
  <2>3. reply.is \in {"refused", "failed", "garbage", "models"}
    BY <1>1, <1>7, RepliesAre
  <2>a. SaidNothing(health[name], heard[name])
    BY <1>2, <1>7 DEF TaskInv
  <2>b. lists = {} <=> reply.is # "models"
    OBVIOUS
  <2> HIDE DEF lists
  <2>4. Tells(heard[name] \cup {[to |-> "models", is |-> reply.is]}, balance.status)
    BY <2>a, <2>b, <2>3, ModelsTell
  <2>6. AlarmsAgree(balance)
    BY ProbedAlarms
  <2>5. Shown({balance}).balance = {balance}
    BY DEF Shown
  <2> HIDE DEF balance
  <2> QED
    BY <1>a, <2>1, <2>2, <2>4, <2>5, <2>6
<1> QED
  BY <1>1, <1>4, <1>5, <1>6, <1>7

LEMMA ProbesSteps == ProbesInv /\ [Next]_vars => ProbesInv'
<1> SUFFICES ASSUME ProbesInv, [Next]_vars PROVE ProbesInv'
  OBVIOUS
<1> USE DEF ProbesInv
\* A step that leaves a task alone.
<1>1. ASSUME NEW name \in Names, TaskInv(name),
             at'[name] = at[name], health'[name] = health[name],
             entry'[name] = entry[name], heard'[name] = heard[name]
      PROVE  TaskInv(name)'
  BY <1>1 DEF TaskInv
<1>2. CASE AskBalances
  <2>1. ASSUME NEW name \in Names PROVE TaskInv(name)'
    <3>1. TaskInv(name) /\ at[name] = "idle"
      BY <1>2 DEF AskBalances, Unasked
    <3>2. /\ at'[name] \in {FirstQuery(name), "idle"}
          /\ health' = health /\ entry' = entry /\ heard' = heard
      BY <1>2 DEF AskBalances
    <3>3. /\ FirstQuery(name) \in {"account", "health", "models"}
          /\ FirstQuery(name) = "account" => Strategy(name) # "default"
      BY DEF FirstQuery
    <3>4. SaidNothing({}, {})
      BY DEF SaidNothing
    <3> QED
      BY <3>1, <3>2, <3>3, <3>4 DEF TaskInv
  <2> QED
    BY <1>2, <2>1 DEF AskBalances
<1>3. ASSUME NEW name \in Names, Hears(name) PROVE ProbesInv'
  <2>1. TaskInv(name)'
    BY <1>3, HearsKeeps
  <2>2. /\ \E l : at' = [at EXCEPT ![name] = l]
        /\ \E v : health' = [health EXCEPT ![name] = v]
        /\ \E e : entry' = [entry EXCEPT ![name] = e]
        /\ \E s : heard' = [heard EXCEPT ![name] = s]
        /\ handler' = handler /\ at[name] # "idle"
    <3>1. /\ health = [health EXCEPT ![name] = health[name]]
          /\ entry = [entry EXCEPT ![name] = entry[name]]
      OBVIOUS
    <3>2. /\ \E l : at' = [at EXCEPT ![name] = l]
          /\ \E s : heard' = [heard EXCEPT ![name] = s]
          /\ handler' = handler /\ at[name] # "idle"
      BY <1>3 DEF Hears, Ends, Waits
    <3>3. /\ health' = health \/ \E v : health' = [health EXCEPT ![name] = v]
          /\ entry' = entry \/ \E e : entry' = [entry EXCEPT ![name] = e]
      BY <1>3 DEF Hears, Ends
    <3> QED
      BY <3>1, <3>2, <3>3
  <2>3. ASSUME NEW other \in Names, other # name PROVE TaskInv(other)'
    BY <1>1, <2>2, <2>3
  <2> QED
    BY <2>1, <2>2, <2>3
<1>4. ASSUME NEW name \in Names, TimesOut(name) PROVE ProbesInv'
  <2>1. /\ at' = [at EXCEPT ![name] = "ended"]
        /\ entry' = [entry EXCEPT ![name] = {Failure}]
        /\ health' = health /\ heard' = heard /\ handler' = handler
        /\ at[name] # "idle"
    BY <1>4 DEF TimesOut, Ends, Waits
  <2>2. TaskInv(name)'
    <3>1. at'[name] = "ended" /\ entry'[name] = {Failure} /\ Failure.balance = {}
      BY <2>1 DEF Failure
    <3> QED
      BY <3>1 DEF TaskInv
  <2>3. ASSUME NEW other \in Names, other # name PROVE TaskInv(other)'
    BY <1>1, <2>1, <2>3
  <2> QED
    BY <2>1, <2>2, <2>3
<1>5. CASE Answer \/ ClientLeaves \/ AskModels \/ ModelsHeard \/ ModelsTimeOut
           \/ UNCHANGED vars
  <2>1. /\ at' = at /\ health' = health /\ entry' = entry /\ heard' = heard
        /\ handler' = "idle" => handler = "idle"
    BY <1>5 DEF Answer, ClientLeaves, AskModels, ModelsHeard, ModelsTimeOut, vars
  <2>2. \A name \in Names : TaskInv(name)'
    BY <1>1, <2>1
  <2> QED
    BY <2>1, <2>2
<1> QED
  BY <1>2, <1>3, <1>4, <1>5 DEF Next, Handlers

\* Whatever upstreams answer, and whenever a task's time is over, what an entry
\* shows is what its own upstream answered, but for the two ways in which an error
\* is taken for something else, and what it marks it has an alert for.
THEOREM EntriesAlwaysTrue == Spec => []EntriesTrue
<1>1. ProbesInv => EntriesTrue
  <2> SUFFICES ASSUME ProbesInv, NEW name \in Names, NEW made \in entry[name],
                      NEW balance \in made.balance
               PROVE  StatusTrue(name, balance) /\ AlarmsAgree(balance)
    BY DEF EntriesTrue
  <2>1. TaskInv(name)
    BY DEF ProbesInv
  <2>2. Tells(heard[name], balance.status) /\ AlarmsAgree(balance)
    BY <2>1 DEF TaskInv
  <2> QED
    BY <2>2 DEF Tells, StatusTrue, Answered, Obliged, ErrorTakenForOffline, ErrorTakenForOnline
<1> QED
  BY <1>1, ProbesInit, ProbesSteps, PTL DEF Spec

-----------------------------------------------------------------------------
(* The answer.                                                             *)

Increasing(s) == \A i, j \in DOMAIN s : i < j => s[i] < s[j]

\* A finite set of numbers can be sorted: its least, and then the others.
LEMMA CanBeSorted ==
    ASSUME NEW S, S \subseteq Nat, IsFiniteSet(S)
    PROVE  \E s \in [1 .. Cardinality(S) -> S] : Increasing(s)
<1> DEFINE P == {n \in Nat : \A T : /\ T \subseteq Nat /\ IsFiniteSet(T)
                                    /\ Cardinality(T) = n
                                    => \E s \in [1 .. n -> T] : Increasing(s)}
<1>1. 0 \in P
  <2>1. ASSUME NEW T PROVE \E s \in [1 .. 0 -> T] : Increasing(s)
    <3>1. [i \in 1 .. 0 |-> 0] \in [1 .. 0 -> T] /\ Increasing([i \in 1 .. 0 |-> 0])
      BY DEF Increasing
    <3> QED
      BY <3>1
  <2> QED
    BY <2>1
<1>2. ASSUME NEW n \in Nat \cap P PROVE n + 1 \in P
  <2> SUFFICES ASSUME NEW T, T \subseteq Nat, IsFiniteSet(T), Cardinality(T) = n + 1
               PROVE  \E s \in [1 .. n + 1 -> T] : Increasing(s)
    OBVIOUS
  <2>1. T # {}
    BY FS_EmptySet
  <2>2. PICK x \in T : \A y \in T : x <= y
    BY <2>1, Least
  <2>3. IsFiniteSet(T \ {x}) /\ Cardinality(T \ {x}) = n
    <3>1. /\ IsFiniteSet(T \ {x})
          /\ Cardinality(T \ {x}) = IF x \in T THEN Cardinality(T) - 1
                                   ELSE Cardinality(T)
      BY FS_RemoveElement, Zenon
    <3> HIDE DEF P
    <3> QED
      BY <3>1
  <2>4. PICK t \in [1 .. n -> T \ {x}] : Increasing(t)
    BY <2>3
  <2> DEFINE s == [i \in 1 .. n + 1 |-> IF i = 1 THEN x ELSE t[i - 1]]
  <2>5. \A i \in 1 .. n + 1 : i = 1 \/ (i - 1 \in 1 .. n /\ i # 1)
    OBVIOUS
  <2>6. ASSUME NEW i \in 1 .. n PROVE t[i] \in T /\ t[i] \in Nat /\ x < t[i]
    <3>1. t[i] \in T /\ t[i] # x
      OBVIOUS
    <3>2. x <= t[i] /\ t[i] \in Nat /\ x \in Nat
      BY <2>2, <3>1
    <3> QED
      BY <3>1, <3>2
  <2>7. s \in [1 .. n + 1 -> T]
    BY <2>5, <2>6
  <2>8. ASSUME NEW i \in 1 .. n + 1, NEW j \in 1 .. n + 1, i < j
        PROVE  s[i] < s[j]
    <3>1. j # 1 /\ j - 1 \in 1 .. n /\ s[j] = t[j - 1]
      BY <2>8
    <3>2. CASE i = 1
      BY <2>6, <3>1, <3>2
    <3>3. CASE i # 1
      <4>1. i - 1 \in 1 .. n /\ i - 1 < j - 1 /\ s[i] = t[i - 1]
        BY <2>8, <3>3
      <4> QED
        BY <2>4, <3>1, <4>1 DEF Increasing
    <3> QED
      BY <3>2, <3>3
  <2> QED
    BY <2>7, <2>8 DEF Increasing
<1> HIDE DEF P
<1>3. Nat \subseteq P
  BY <1>1, <1>2, InductionOnNat
<1>4. Cardinality(S) \in Nat
  BY FS_CardinalityType
<1> QED
  BY <1>3, <1>4 DEF P

\* What is sorted is everything, in order.
LEMMA SortedIs ==
    ASSUME NEW S, S \subseteq Nat, IsFiniteSet(S)
    PROVE  /\ DOMAIN Sorted(S) = 1 .. Cardinality(S)
           /\ {Sorted(S)[i] : i \in DOMAIN Sorted(S)} = S
           /\ Increasing(Sorted(S))
<1> DEFINE n == Cardinality(S)
           s == Sorted(S)
<1>1. s \in [1 .. n -> S] /\ Increasing(s)
  BY CanBeSorted DEF Sorted, Increasing
<1>2. n \in Nat
  BY FS_CardinalityType
<1> HIDE DEF s
<1>3. s \in Injection(1 .. n, S)
  <2>1. ASSUME NEW i \in 1 .. n, NEW j \in 1 .. n, s[i] = s[j] PROVE i = j
    <3>1. s[i] \in Nat /\ s[j] \in Nat
      BY <1>1
    <3>2. ~(i < j) /\ ~(j < i)
      BY <1>1, <2>1, <3>1 DEF Increasing
    <3> QED
      BY <1>2, <3>2
  <2> QED
    BY <1>1, <2>1 DEF Injection, IsInjective
<1>4. Cardinality(1 .. n) = n
  BY <1>2, FS_Interval
<1>5. s \in Surjection(1 .. n, S)
  BY <1>3, <1>4, FS_Injection
<1>6. {s[i] : i \in 1 .. n} = S
  BY <1>1, <1>5 DEF Surjection
<1> QED
  BY <1>1, <1>6 DEF s

\* What makes the answer complete: whoever is to be in it has ended, and has
\* nothing more to do.
AnswerInv ==
    /\ stored \subseteq Names
    /\ handler = "done" => Complete /\ \A name \in stored : at[name] = "ended"

AnswerComplete == handler = "done" => Complete

LEMMA AnswerSteps ==
    ASSUME ProbesInv, AnswerInv, [Next]_vars
    PROVE  AnswerInv'
<1> USE DEF AnswerInv
<1>1. CASE Answer
  <2> DEFINE names == Sorted(stored)
  <2>1. /\ stored' = stored /\ entry' = entry /\ at' = at
        /\ \A name \in stored : at[name] = "ended"
        /\ answer' = [i \in DOMAIN names |->
                        [name |-> names[i], entry |-> CHOOSE e \in entry[names[i]] : TRUE]]
    BY <1>1 DEF Answer
  <2>2. stored \subseteq Nat /\ IsFiniteSet(stored)
    BY ProbesAssumption, FS_Subset DEF Names
  <2>3. /\ {names[i] : i \in DOMAIN names} = stored
        /\ Increasing(names)
    BY <2>2, SortedIs
  <2> HIDE DEF names
  <2>4. DOMAIN answer' = DOMAIN names
    BY <2>1
  <2>5. \A i \in DOMAIN names : answer'[i].name = names[i] /\ names[i] \in stored
    BY <2>1, <2>3
  <2>6. ASSUME NEW i \in DOMAIN names
        PROVE  entry[names[i]] = {answer'[i].entry}
    <3>1. at[names[i]] = "ended" /\ TaskInv(names[i])
      BY <2>1, <2>5 DEF ProbesInv
    <3>2. PICK made : entry[names[i]] = {made}
      BY <3>1 DEF TaskInv
    <3> QED
      BY <2>1, <3>2
  <2>7. {answer'[i].name : i \in DOMAIN answer'} = stored
    BY <2>3, <2>4, <2>5
  <2>8. \A i, j \in DOMAIN answer' : i < j => answer'[i].name < answer'[j].name
    BY <2>3, <2>4, <2>5 DEF Increasing
  <2>9. \A i \in DOMAIN answer' : entry'[answer'[i].name] = {answer'[i].entry}
    BY <2>1, <2>4, <2>5, <2>6
  <2> QED
    BY <2>1, <2>7, <2>8, <2>9 DEF Complete
<1>2. ASSUME NEW name \in Names, Hears(name) \/ TimesOut(name) PROVE AnswerInv'
  <2>1. /\ handler' = handler /\ stored' = stored /\ answer' = answer
        /\ Waits(name)
    BY <1>2 DEF Hears, TimesOut
  <2>2. ASSUME NEW other \in Names, at[other] = "ended"
        PROVE  entry'[other] = entry[other] /\ at'[other] = at[other]
    <3>1. other # name
      BY <2>1, <2>2 DEF Waits
    <3> QED
      BY <1>2, <3>1 DEF Hears, TimesOut, Ends, ProbesInv
  <2> SUFFICES ASSUME handler = "done"
               PROVE  Complete' /\ \A other \in stored : at'[other] = "ended"
    BY <2>1
  <2>3. \A i \in DOMAIN answer : answer[i].name \in stored
    BY DEF Complete
  <2> QED
    BY <2>1, <2>2, <2>3 DEF Complete
<1>3. CASE AskBalances \/ ClientLeaves \/ AskModels \/ ModelsHeard
           \/ ModelsTimeOut \/ UNCHANGED vars
  <2>1. /\ stored' = stored
        /\ handler' = "done" => /\ handler = "done" /\ at' = at
                                /\ entry' = entry /\ answer' = answer
    BY <1>3 DEF AskBalances, ClientLeaves, AskModels, ModelsHeard,
                ModelsTimeOut, vars
  <2> QED
    BY <2>1 DEF Complete
<1> QED
  BY <1>1, <1>2, <1>3 DEF Next, Handlers

\* The safety half of AllAnswered: an answer has the entry of every provider
\* that is configured, once, in the order of names, whatever upstreams do.
THEOREM CompleteWhenDone == Spec => []AnswerComplete
<1>1. Init => AnswerInv
  BY DEF Init, AnswerInv
<1>2. AnswerInv => AnswerComplete
  BY DEF AnswerInv, AnswerComplete
<1>3. ProbesInv /\ AnswerInv /\ [Next]_vars => AnswerInv'
  BY AnswerSteps
<1> QED
  BY <1>1, <1>2, <1>3, ProbesInit, ProbesSteps, PTL DEF Spec
=============================================================================
