------------------------------ MODULE MCActing ------------------------------
(***************************************************************************)
(* Small instances of what decides to act: the scheduler, the tool server  *)
(* with the investigations that use it, and the guardrails.  They share no *)
(* state: a behaviour is one of one of them, the others rest.              *)
(*                                                                         *)
(* The guardrails get rules like those of the shipped default policy       *)
(* (guardrails/policies) and actions on both sides of every ceiling.  The  *)
(* after-hours rule asks for three approvals here, to outbid the two that  *)
(* prod asks for; the deny has alternatives, which no shipped rule has;    *)
(* and one rule takes risk away, as the loader allows.                     *)
(***************************************************************************)
EXTENDS Scheduler, Agent, Guardrails, TLC

VARIABLE part

vars == <<part, schedulerVars, agentVars, guardrailsVars>>

Env == {"dev", "stage", "prod", "unheard-of"}
Category == {"deployment", "iam", "db", "misc"}

MCEnvRisk == [e \in {"dev", "stage", "prod"} |->
                CASE e = "dev" -> 5 [] e = "stage" -> 20 [] e = "prod" -> 40]
MCCatRisk == [c \in {"deployment", "iam", "db"} |->
                CASE c = "deployment" -> 5 [] c = "iam" -> 30 [] c = "db" -> 20]

MCAction == [env : {"dev", "prod"}, category : {"deployment", "misc"},
             destructive : {FALSE}, reversible : {TRUE}, blast : {1}]
            \union [env : {"prod", "unheard-of"}, category : {"iam"},
                    destructive : {FALSE}, reversible : {TRUE}, blast : {1}]
            \union [env : {"prod"}, category : {"db"},
                    destructive : {TRUE}, reversible : {TRUE}, blast : {1}]
            \union [env : {"dev"}, category : {"misc"}, destructive : {FALSE},
                    reversible : {FALSE}, blast : {50, 501}]

AnyAction == [env |-> Env, category |-> Category, destructive |-> BOOLEAN,
        reversible |-> BOOLEAN, hours |-> BOOLEAN, blast |-> 0]
NoEffect == [match |-> AnyAction, any |-> {}, cap |-> EXECUTE, approvals |-> 0,
             deny |-> FALSE, add |-> 0]

MCRule == {
  [NoEffect EXCEPT !.match.env = {"prod"}, !.approvals = 2],
  [NoEffect EXCEPT !.match.category = {"iam"}, !.cap = PROPOSE],
  [NoEffect EXCEPT !.match.env = {"prod"}, !.match.hours = {TRUE}, !.approvals = 3],
  [NoEffect EXCEPT !.match.blast = 50, !.approvals = 1, !.add = 5],
  [NoEffect EXCEPT !.any = {[AnyAction EXCEPT !.env = {"prod"}],
                            [AnyAction EXCEPT !.category = {"db"}]},
                   !.match.destructive = {TRUE}, !.deny = TRUE],
  [NoEffect EXCEPT !.match.env = {"dev"}, !.add = -20]}

Init ==
  /\ part \in {"scheduler", "agents", "guardrails"}
  /\ SchedulerInit /\ AgentsInit /\ GuardrailsInit
  /\ part # "scheduler" => table = Default({})
  /\ ~tripped /\ (part # "guardrails" => policy = {})

Next ==
  \/ part = "scheduler" /\ SchedulerNext /\ UNCHANGED <<part, agentVars, guardrailsVars>>
  \/ part = "agents" /\ AgentsNext /\ UNCHANGED <<part, schedulerVars, guardrailsVars>>
  \/ part = "guardrails" /\ GuardrailsNext /\ UNCHANGED <<part, schedulerVars, agentVars>>

Spec == Init /\ [][Next]_vars

(* Investigations and incidents are told apart by identity only. *)
Symmetry == Permutations(Caller) \union Permutations(Incident)
=============================================================================
