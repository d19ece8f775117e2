------------------------------- MODULE Access -------------------------------
(***************************************************************************)
(* Rule lists that decide something: the routes that bind sessions to      *)
(* agents (src/routing/mod.rs, agents.bind and agents.unbind of            *)
(* src/gateway/websocket.rs), the policies that approve a command          *)
(* (src/infra/exec_approval.rs) and the allow lists of direct messages     *)
(* (src/infra/dm_policy.rs).  The first rule that matches decides.         *)
(***************************************************************************)
EXTENDS Naturals, Sequences, FiniteSets, Subsequences

CONSTANTS
    RouteAgents, Accounts, Peers,
    Unset,       \* an option that is absent
    MaxRoutes,   \* bound: routes at a time
    MaxRules,    \* bound: policies, and allow list sources
    MaxBinds     \* bound: requests to bind or unbind

ASSUME AccessAssumption ==
    /\ {MaxRoutes, MaxRules, MaxBinds} \subseteq Nat
    /\ Unset \notin RouteAgents \cup Accounts \cup Peers
    /\ "*" \notin Accounts \cup Peers

VARIABLES
    routes,     \* RouteManager.routes
    bound,      \* history: owner -> what it bound less what it unbound
    binds,      \* requests to bind or unbind so far
    routed,     \* the last resolution: its inputs and its answer
    approval,   \* an evaluation of the approval policies
    allowList   \* a merge of allow lists and a check against it

accVars == <<routes, bound, binds, routed, approval, allowList>>

Owners == Accounts \cup {Unset}
NoDecision == [at |-> 0]

AccInit ==
    /\ routes = <<>> /\ bound = [o \in Owners |-> <<>>] /\ binds = 0
    /\ routed = NoDecision /\ approval = NoDecision /\ allowList = NoDecision

-----------------------------------------------------------------------------
(* Routes.  A rule names an account and a peer, either may be absent; the  *)
(* channel is one more field like the account, the guild and the team are  *)
(* both compared with the thread.                                          *)

Rules == [agent : RouteAgents, account : Owners, peer : Peers \cup {"*", Unset}]

AgentsBind(agent, owner, peer) ==
    /\ binds < MaxBinds /\ Len(routes) < MaxRoutes
    /\ binds' = binds + 1
    /\ LET r == [agent |-> agent, account |-> owner, peer |-> peer]
       IN routes' = Append(routes, r) /\ bound' = [bound EXCEPT ![owner] = Append(@, r)]
    /\ UNCHANGED <<routed, approval, allowList>>

StaysForAny(r, agent, account) == r.agent # agent   \* mutant of Stays

(* Only the routes of the account go; without one, those of every account. *)
Stays(r, agent, account) ==
    \/ r.agent # agent
    \/ account # Unset /\ account # r.account

AgentsUnbind(agent, account) ==
    /\ binds < MaxBinds
    /\ binds' = binds + 1
    /\ routes' = Only(routes, {r \in Rules : Stays(r, agent, account)})
    /\ bound' = [o \in Owners |->
                   IF account \in {o, Unset}
                   THEN Only(bound[o], {r \in Rules : r.agent # agent}) ELSE bound[o]]
    /\ UNCHANGED <<routed, approval, allowList>>

ListRoutes(account) ==
    IF account = Unset THEN routes ELSE Only(routes, {r \in Rules : r.account = account})

(* A field the rule names must be there and equal; "*" is any peer.        *)
MatchesBinding(r, ctx) ==
    /\ r.account # Unset => ctx.account = r.account
    /\ r.peer # Unset => ctx.peer # Unset /\ r.peer \in {"*", ctx.peer}

ResolveAgent(ctx) ==
    LET hits == {i \in 1 .. Len(routes) : MatchesBinding(routes[i], ctx)}
    IN routed' = [at |-> 1, ctx |-> ctx, list |-> routes,
                  agent |-> IF hits = {} THEN Unset
                            ELSE routes[CHOOSE i \in hits : \A j \in hits : i <= j].agent]
Resolve(ctx) ==
    /\ routed = NoDecision
    /\ ResolveAgent(ctx)
    /\ UNCHANGED <<routes, bound, binds, approval, allowList>>

-----------------------------------------------------------------------------
(* Approval of a command.  A policy is what it says of this request: is    *)
(* the turn's channel and account among its own ("here"), do its argv      *)
(* prefixes and its patterns match, is its environment that of the request *)
(* (looked at by "allow" only).                                            *)

Policy ==
    {p \in [action : {"allow", "deny", "ask"}, here : BOOLEAN, env : BOOLEAN,
            argv : {"empty", "hit", "miss"}, patterns : {"empty", "hit", "miss"}] :
        p.action # "allow" => p.env}

MatchesPolicy(p) ==
    /\ p.here
    /\ \/ p.argv = "hit"
       \/ p.patterns = "hit"
       \/ p.argv = "empty" /\ p.patterns = "empty"

BeginApproval(policies) ==
    /\ approval = NoDecision
    /\ approval' = [at |-> 1, policies |-> policies, action |-> "none"]
    /\ UNCHANGED <<routes, bound, binds, routed, allowList>>

NextEnvPolicy(p) ==   \* mutant of Outcome: an environment that differs is a rule that does not match
    IF ~MatchesPolicy(p) \/ (p.action = "allow" /\ ~p.env) THEN "none" ELSE p.action

Outcome(p) ==
    IF ~MatchesPolicy(p) THEN "none"
    ELSE IF p.action = "allow" /\ ~p.env THEN "ask"
    ELSE p.action

(* The policies in turn; after the last the answer is to ask.              *)
EvaluatePolicy ==
    /\ approval.at > 0 /\ approval.action = "none"
    /\ approval' =
         IF approval.at > Len(approval.policies) THEN [approval EXCEPT !.action = "ask"]
         ELSE [approval EXCEPT !.at = @ + 1, !.action = Outcome(approval.policies[approval.at])]
    /\ UNCHANGED <<routes, bound, binds, routed, allowList>>

-----------------------------------------------------------------------------
(* Allow lists.  A source adds its entries to those of its account, one    *)
(* of a group replaces them.                                               *)

Sources == [account : Accounts, entries : SUBSET (Peers \cup {"*"}), group : BOOLEAN]

BeginMerge(sources) ==
    /\ allowList = NoDecision
    /\ allowList' = [at |-> 1, sources |-> sources, merged |-> [a \in Accounts |-> {}]]
    /\ UNCHANGED <<routes, bound, binds, routed, approval>>

MergeSource ==
    /\ allowList # NoDecision /\ allowList.at <= Len(allowList.sources)
    /\ LET s == allowList.sources[allowList.at]
       IN allowList' = [allowList EXCEPT
                          !.at = @ + 1,
                          !.merged[s.account] = s.entries \cup IF s.group THEN {} ELSE @]
    /\ UNCHANGED <<routes, bound, binds, routed, approval>>

Matching(entries, sender) == {"*", sender} \cap entries # {}

(* In a group only the list of the account counts; elsewhere, if that one  *)
(* does not match, any account's will do.                                  *)
CheckDmAccess(merged, policy, sender, account, group) ==
    CASE policy = "open" -> TRUE
      [] policy = "block" -> FALSE
      [] OTHER -> \/ account # Unset /\ Matching(merged[account], sender)
                  \/ ~group /\ \E a \in Accounts : Matching(merged[a], sender)

-----------------------------------------------------------------------------
Contexts == [account : Owners, peer : Peers \cup {Unset}]

AccNext ==
    \/ /\ approval = NoDecision /\ allowList = NoDecision /\ routed = NoDecision
       /\ \/ \E a \in RouteAgents, o \in Owners, p \in Peers \cup {"*", Unset} : AgentsBind(a, o, p)
          \/ \E a \in RouteAgents, o \in Owners : AgentsUnbind(a, o)
          \/ \E ctx \in Contexts : Resolve(ctx)
    \/ /\ routes = <<>> /\ binds = 0 /\ routed = NoDecision
       /\ approval = NoDecision /\ allowList = NoDecision
       /\ \E n \in 0 .. MaxRules :
            \/ \E s \in [1 .. n -> Policy] : BeginApproval(s)
            \/ \E s \in [1 .. n -> Sources] : BeginMerge(s)
    \/ EvaluatePolicy
    \/ MergeSource

AccSpec == AccInit /\ [][AccNext]_accVars

-----------------------------------------------------------------------------
AccTypeOK ==
    /\ Len(routes) <= MaxRoutes /\ binds \in 0 .. MaxBinds
    /\ routed.at \in {0, 1} /\ approval.at \in 0 .. MaxRules + 1
    /\ allowList.at \in 0 .. MaxRules + 1

(* What an account lists is what it bound and did not unbind, in order: no *)
(* request scoped to one account touches the routes of another (unbind).   *)
RoutesStayOwned ==
    \A o \in Accounts : ListRoutes(o) = bound[o]

(* The agent of a session is that of the first rule that matches, and a    *)
(* rule never hands a session of one account to a rule of another          *)
(* (resolve_agent_for_session).                                            *)
FirstRouteWins ==
    routed # NoDecision =>
      \/ /\ routed.agent = Unset
         /\ \A i \in DOMAIN routed.list : ~MatchesBinding(routed.list[i], routed.ctx)
      \/ \E i \in DOMAIN routed.list :
           /\ MatchesBinding(routed.list[i], routed.ctx)
           /\ routed.list[i].agent = routed.agent
           /\ \A j \in 1 .. i - 1 : ~MatchesBinding(routed.list[j], routed.ctx)

(* A command is allowed only by an allow policy whose environment it meets *)
(* and that no matching policy of any kind stands before; no later policy  *)
(* is asked once one has matched (evaluate_exec_approval).                 *)
FirstPolicyDecides ==
    LET ps == approval.policies
        hits == {i \in DOMAIN ps : MatchesPolicy(ps[i])}
        first == CHOOSE i \in hits : \A j \in hits : i <= j
    IN approval.at > 0 /\ approval.action # "none" =>
         /\ approval.action = "allow" =>
              hits # {} /\ ps[first].action = "allow" /\ ps[first].env
         /\ approval.action = "deny" <=> hits # {} /\ ps[first].action = "deny"

(* An account without group sources lists what all of its sources list.    *)
(* One whose last source is a group's admits, in the context of a group,   *)
(* exactly that source's entries: none of the account's own, of an earlier *)
(* group's or of another account's (merge_dm_allow_from_sources,           *)
(* check_dm_access).  An account source after a group's is the case of     *)
(* GroupsDoNotInherit.                                                     *)
GroupReplacesAccount ==
    allowList.at > 0 =>
      \A a \in Accounts, s \in Peers :
         LET seen == {i \in 1 .. allowList.at - 1 : allowList.sources[i].account = a}
             groups == {i \in seen : allowList.sources[i].group}
         IN /\ groups = {} =>
                 (Matching(allowList.merged[a], s)
                    <=> \E i \in seen : Matching(allowList.sources[i].entries, s))
            /\ \A i \in groups :
                 (\A j \in seen : j <= i) =>
                   (CheckDmAccess(allowList.merged, "allowlist", s, a, TRUE)
                      <=> Matching(allowList.sources[i].entries, s))

(* The rule lists decide as their order says.                              *)
FirstRuleDecides ==
    RoutesStayOwned /\ FirstRouteWins /\ FirstPolicyDecides /\ GroupReplacesAccount

(* Group sources do not inherit the entries of their account, in whatever  *)
(* order the sources come: in the context of a group, an account that has  *)
(* group sources admits only whom one of them lists (the comment of        *)
(* merge_dm_allow_from_sources; its code adds to a group's entries those   *)
(* of an account source that comes after it).                              *)
GroupsDoNotInherit ==
    allowList.at > 0 =>
      \A a \in Accounts, s \in Peers :
         LET groups == {i \in 1 .. allowList.at - 1 :
                          allowList.sources[i].account = a /\ allowList.sources[i].group}
         IN groups # {} /\ CheckDmAccess(allowList.merged, "allowlist", s, a, TRUE)
              => \E i \in groups : Matching(allowList.sources[i].entries, s)
=============================================================================
