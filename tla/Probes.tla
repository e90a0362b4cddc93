------------------------------- MODULE Probes -------------------------------
(***************************************************************************)
(* The probes of the admin interface: /api/balance asks every configured   *)
(* provider for its state, each in a task of its own with a time limit,    *)
(* and answers when all of them have ended; /api/providers/:id/models asks *)
(* one provider for its models (src/src/web.rs, with create_provider in    *)
(* src/src/provider/mod.rs, the strategies of                              *)
(* src/src/provider/cloud/openai.rs, probe_balance in                      *)
(* src/src/provider/cloud/health_prober.rs and the parsers in              *)
(* src/src/provider/health.rs).                                            *)
(*                                                                         *)
(* An upstream may refuse, fail, answer anything, or never answer, to each *)
(* query anew.                                                             *)
(*                                                                         *)
(* Abstracted: URLs and keys; plans, resets, units and wording; a balance  *)
(* is a status with the levels of its metrics and alerts.  The tasks hold  *)
(* nothing that panics, so that the entry for a task that did is not made. *)
(***************************************************************************)
EXTENDS Naturals, FiniteSets

CONSTANTS
    Config,     \* names (numbers) -> [type, endpoint], the latter as is_local
                \* sees it: "local", "remote" or "" if left out
    Memory,     \* [used, max]: what an engine pool may say of its memory
    Shares,     \* hundredths of a percent: what a quota may be used up to
    MaxStored   \* bound: how many of the providers are configured

ASSUME ProbesAssumption ==
    /\ DOMAIN Config \subseteq Nat
    /\ IsFiniteSet(DOMAIN Config)
    /\ Memory \subseteq [used : Nat, max : Nat]
    /\ Shares \subseteq Nat

VARIABLES
    stored,     \* the names of the providers configured
    handler,    \* of /api/balance: "idle", "waiting", "done" or "gone"
    at,         \* of each task: what it waits for, or "ended"
    health,     \* of each task: health_ok, known once /health was asked
    entry,      \* the UnifiedBalanceEntry of each task, once it ended
    answer,     \* BalanceResponse: names with their entries
    listing,    \* of /api/providers/:id/models: [of, is]
    heard       \* history: what each task asked and was answered

vars == <<stored, handler, at, health, entry, answer, listing, heard>>

Names == DOMAIN Config

\* create_provider: the strategy, and where the provider is.
Strategy(name) ==
    CASE Config[name].type = "deepseek" -> "deepseek"
      [] Config[name].type \in {"glm", "z.ai"} -> "glm"
      [] Config[name].type \in {"lmstudio", "sglang", "openai", "openai-compatible"} ->
            "default"
      [] OTHER -> "omlx"

IsLocal(name) ==
    IF Config[name].endpoint = "" THEN Config[name].type \in {"omlx", "lmstudio", "sglang"}
    ELSE Config[name].endpoint = "local"

-----------------------------------------------------------------------------
(* What upstreams answer.                                                  *)

Silent == {[is |-> "refused"], [is |-> "failed"], [is |-> "garbage"]}

\* "" is a status that is empty, "missing" one that is not there; a pool names
\* its memory as oMLX does, or else as max_model_memory.
HealthReplies ==
    Silent \cup {[is |-> "blank"]}
    \cup [is : {"health"}, status : {"healthy", "ill", "", "missing"},
          pools : {{}} \cup {{pool} : pool \in
                       [memory : Memory, asOmlx : BOOLEAN, loaded : {0, 1}]}]

ModelsReplies == Silent \cup [is : {"models"}, count : {0, 1}]

\* The balance of the first account, if there is one and it is a number.
CreditReplies == Silent \cup [is : {"credit"}, left : {{}, {0}, {1}}]

QuotaReplies ==
    Silent \cup {[is |-> "nothing"]}
    \cup [is : {"quota"}, tokens : Shares, mcp : Shares]

Replies(name, query) ==
    CASE query = "health" -> HealthReplies
      [] query = "models" -> ModelsReplies
      [] query = "account" /\ Strategy(name) = "omlx" -> HealthReplies
      [] query = "account" /\ Strategy(name) = "deepseek" -> CreditReplies
      [] query = "account" /\ Strategy(name) = "glm" -> QuotaReplies

-----------------------------------------------------------------------------
(* The parsers.                                                            *)

\* MetricStatus::from_percentage.
Level(share) ==
    IF share >= 9500 THEN "critical" ELSE IF share >= 8000 THEN "warn" ELSE "ok"

\* The alert on a share that is used, where there is to be one.
Alarm(what, share) ==
    IF share >= 9500 THEN {[of |-> what, level |-> "critical"]}
    ELSE IF share >= 8000 THEN {[of |-> what, level |-> "warn"]}
    ELSE {}

\* A share in percent, rounded to two digits.
Share(memory) ==
    IF memory.max = 0 THEN 0
    ELSE (memory.used * 20000 + memory.max) \div (2 * memory.max)

\* An entry: an error, or perhaps a balance.
Failure == [error |-> TRUE, balance |-> {}]
Shown(balances) == [error |-> FALSE, balance |-> balances]
Balance(status, metrics, alerts) ==
    [status |-> status, metrics |-> metrics, alerts |-> alerts]

\* parse_omlx_balance reads a status and a pool that names its final_ceiling.
ReadsOmlx(reply, pools) ==
    reply.status # "missing" /\ \E pool \in pools : pool.asOmlx

OmlxBalance(reply, pools) ==
    LET pool == CHOOSE p \in pools : TRUE
        share == Share(pool.memory)
        healthy == reply.status = "healthy"
    IN  Balance(IF healthy THEN "online" ELSE "error",
                {[of |-> "Models", level |-> "ok"],
                 [of |-> "Loaded", level |-> IF pool.loaded = 0 THEN "warn" ELSE "ok"],
                 [of |-> "VRAM", level |-> Level(share)]},
                Alarm("VRAM", share)
                \cup (IF healthy THEN {} ELSE {[of |-> "Engine", level |-> "critical"]}))

CreditBalance(left) ==
    LET depleted == left \subseteq {0}
    IN  Balance("online",
                {[of |-> "Credit", level |-> IF depleted THEN "critical" ELSE "ok"]},
                IF depleted THEN {[of |-> "Credit", level |-> "critical"]} ELSE {})

QuotaBalance(reply) ==
    Balance("online",
            {[of |-> "Tokens", level |-> Level(reply.tokens)],
             [of |-> "MCP", level |-> Level(reply.mcp)]},
            Alarm("Tokens", reply.tokens) \cup Alarm("MCP", reply.mcp))

\* balance_omlx, balance_deepseek and balance_glm.
Account(reply) ==
    CASE reply.is = "health" /\ ReadsOmlx(reply, reply.pools) ->
            Shown({OmlxBalance(reply, reply.pools)})
      [] reply.is = "credit" -> Shown({CreditBalance(reply.left)})
      [] reply.is = "quota" -> Shown({QuotaBalance(reply)})
      [] reply.is = "nothing" -> Shown({})
      [] OTHER -> Failure

-----------------------------------------------------------------------------
(* probe_balance: /health if it is local, and the models if that failed or *)
(* said nothing.                                                           *)

\* Variant of HealthOk that takes a failure for silence.
HealthOk_FailureIsSilence(reply) ==
    IF reply.is \in {"health", "blank"} THEN {reply} ELSE {}

\* health_ok: what /health answered, unless it refused or answered garbage.
HealthOk(reply) ==
    IF reply.is \in {"health", "blank", "failed"} THEN {reply} ELSE {}

\* A pool of any maker, made to look like that of oMLX.
Normalized(reply) == {[pool EXCEPT !.asOmlx = TRUE] : pool \in reply.pools}

ModelsMetric(lists) ==
    {[of |-> "Models", level |-> IF list.count = 0 THEN "warn" ELSE "ok"] :
        list \in lists}

\* The balance, by what /health answered and by the models, if these were read.
Probed(ok, lists) ==
    LET rich == {reply \in ok : reply.is = "health"}
        read == {reply \in rich : ReadsOmlx(reply, Normalized(reply))}
        ill == \E reply \in rich : reply.status = "ill"
    IN  IF ok = {} /\ lists = {} THEN Balance("offline", {}, {})
        ELSE IF read # {}
        THEN LET reply == CHOOSE r \in read : TRUE
             IN  OmlxBalance(reply, Normalized(reply))
        ELSE Balance(IF ill THEN "error" ELSE "online", ModelsMetric(lists), {})

-----------------------------------------------------------------------------
(* The handlers and their tasks.                                           *)

Init ==
    /\ stored \in {names \in SUBSET Names : Cardinality(names) <= MaxStored}
    /\ handler = "idle"
    /\ at = [name \in Names |-> "idle"]
    /\ health = [name \in Names |-> {}]
    /\ entry = [name \in Names |-> {}]
    /\ answer = <<>>
    /\ listing = [of |-> {}, is |-> "idle"]
    /\ heard = [name \in Names |-> {}]

FirstQuery(name) ==
    IF Strategy(name) # "default" THEN "account"
    ELSE IF IsLocal(name) THEN "health"
    ELSE "models"

\* Bound: one request.  Requests have nothing in common.
Unasked == handler = "idle" /\ listing.is = "idle"

\* A task for every provider is spawned.
AskBalances ==
    /\ Unasked
    /\ handler' = "waiting"
    /\ at' = [name \in Names |-> IF name \in stored THEN FirstQuery(name) ELSE "idle"]
    /\ UNCHANGED <<stored, health, entry, answer, listing, heard>>

Waits(name) == at[name] \in {"health", "models", "account"}

Ends(name, made) ==
    /\ at' = [at EXCEPT ![name] = "ended"]
    /\ entry' = [entry EXCEPT ![name] = {made}]

\* The upstream answers, or refuses to.
Hears(name) ==
    /\ Waits(name)
    /\ \E reply \in Replies(name, at[name]) :
          /\ heard' = [heard EXCEPT ![name] = @ \cup {[to |-> at[name], is |-> reply.is]}]
          /\ \/ /\ at[name] = "account"
                /\ Ends(name, Account(reply))
                /\ UNCHANGED health
             \/ /\ at[name] = "health"
                /\ health' = [health EXCEPT ![name] = HealthOk(reply)]
                /\ IF reply.is \in {"health", "blank"}
                   THEN Ends(name, Shown({Probed(HealthOk(reply), {})}))
                   ELSE /\ at' = [at EXCEPT ![name] = "models"]
                        /\ UNCHANGED entry
             \/ /\ at[name] = "models"
                /\ Ends(name, Shown({Probed(health[name],
                                            IF reply.is = "models" THEN {reply} ELSE {})}))
                /\ UNCHANGED health
    /\ UNCHANGED <<stored, handler, answer, listing>>

\* Variant of TimesOut in which the limit is that of the first query.
TimesOut_FirstQuery(name) ==
    /\ at[name] \in {"health", "account"}
    /\ Ends(name, Failure)
    /\ UNCHANGED <<stored, handler, health, answer, listing, heard>>

\* Ten seconds are over, for all of a task's queries together.
TimesOut(name) ==
    /\ Waits(name)
    /\ Ends(name, Failure)
    /\ UNCHANGED <<stored, handler, health, answer, listing, heard>>

\* What is the least first.
Sorted(names) ==
    CHOOSE s \in [1 .. Cardinality(names) -> names] :
        \A i, j \in DOMAIN s : i < j => s[i] < s[j]

\* The handler has awaited every task, and sorts their entries by name.
Answer ==
    /\ handler = "waiting"
    /\ \A name \in stored : at[name] = "ended"
    /\ handler' = "done"
    /\ answer' = LET names == Sorted(stored)
                 IN  [i \in DOMAIN names |->
                         [name |-> names[i], entry |-> CHOOSE e \in entry[names[i]] : TRUE]]
    /\ UNCHANGED <<stored, at, health, entry, listing, heard>>

\* The handler is dropped; its tasks go on.
ClientLeaves ==
    /\ handler = "waiting"
    /\ handler' = "gone"
    /\ UNCHANGED <<stored, at, health, entry, answer, listing, heard>>

AskModels ==
    /\ Unasked
    /\ \E name \in Names :
          listing' = [of |-> {name},
                      is |-> IF name \in stored THEN "waiting" ELSE "404"]
    /\ UNCHANGED <<stored, handler, at, health, entry, answer, heard>>

ModelsHeard ==
    /\ listing.is = "waiting"
    /\ \E reply \in ModelsReplies :
          listing' = [listing EXCEPT !.is = IF reply.is = "models" THEN "200" ELSE "502"]
    /\ UNCHANGED <<stored, handler, at, health, entry, answer, heard>>

ModelsTimeOut ==
    /\ listing.is = "waiting"
    /\ listing' = [listing EXCEPT !.is = "504"]
    /\ UNCHANGED <<stored, handler, at, health, entry, answer, heard>>

Handlers == AskBalances \/ Answer \/ ClientLeaves \/ AskModels

Next ==
    \/ Handlers
    \/ \E name \in Names : Hears(name) \/ TimesOut(name)
    \/ ModelsHeard
    \/ ModelsTimeOut

\* Time passes, and the runtime gets to every task that is ready; upstreams
\* may be silent for ever.
Spec ==
    /\ Init
    /\ [][Next]_vars
    /\ WF_vars(Answer)
    /\ WF_vars(ModelsTimeOut)
    /\ \A name \in Names : WF_vars(TimesOut(name))

-----------------------------------------------------------------------------
(* Properties.                                                             *)

Levels(judged, level) == {j.of : j \in {k \in judged : k.level = level}}

\* Who answered, and who answered with what was asked for.
Answered(name) == {h \in heard[name] : h.is # "refused"}
Obliged(name) == {h \in Answered(name) : h.is \notin {"failed", "garbage"}}

\* Two ways in which the code departs from what is said below of a status: to the
\* models an error is taken for no answer, and so is what cannot be read; and
\* after an error to /health, an error to the models changes nothing.
ErrorTakenForOffline(name) ==
    \A h \in Answered(name) : h.is = "garbage" \/ (h.to = "models" /\ h.is = "failed")
ErrorTakenForOnline(name) == [to |-> "health", is |-> "failed"] \in heard[name]

\* 2026-05-10-providers-ui-redesign.md:96-101: "online" is a balance that is there
\* and in order, "offline" a connection that failed, "error" an error that the API
\* returned; and health_prober.rs:25: "If nothing is reachable, return Offline".
\* So it is but for the two ways above, and an error is shown only if /health says
\* it in its status.
StatusTrue(name, balance) ==
    /\ balance.status = "online" => Obliged(name) # {} \/ ErrorTakenForOnline(name)
    /\ balance.status = "error" => \E h \in Obliged(name) : h.is = "health"
    /\ balance.status = "offline" => Answered(name) = {} \/ ErrorTakenForOffline(name)

\* What is marked critical has an alert that says so, and the other way round;
\* so has what is marked as a warning, but for models that are not loaded.
AlarmsAgree(balance) ==
    /\ Levels(balance.metrics, "critical") = Levels(balance.alerts, "critical") \ {"Engine"}
    /\ Levels(balance.metrics, "warn") \ {"Models", "Loaded"} = Levels(balance.alerts, "warn")

\* Every entry that a task made tells what its own upstream answered, but where
\* an error is taken for something else.
EntriesTrue ==
    \A name \in Names : \A made \in entry[name] : \A balance \in made.balance :
        StatusTrue(name, balance) /\ AlarmsAgree(balance)

\* The answer has the entry of every provider, once, in the order of names.
Complete ==
    /\ {answer[i].name : i \in DOMAIN answer} = stored
    /\ \A i, j \in DOMAIN answer : i < j => answer[i].name < answer[j].name
    /\ \A i \in DOMAIN answer : entry[answer[i].name] = {answer[i].entry}

\* However silent upstreams are, whoever asks and stays is answered, for all
\* providers, and no task stays behind, also not of those who left.
AllAnswered ==
    /\ handler = "waiting" ~> handler = "gone" \/ (handler = "done" /\ Complete)
    /\ \A name \in Names : Waits(name) ~> at[name] = "ended"
    /\ listing.is = "waiting" ~> listing.is \in {"200", "502", "504"}
=============================================================================
