---------------------------- MODULE MCRuleEngine ----------------------------
(* A small instance of RuleEngine: two agents, three leads, three rules.       *)
EXTENDS RuleEngine

CONSTANTS a1, a2, l1, l2, l3

TwoAgents == <<a1, a2>>
Rule(trigger, owner, when, hours, acts) ==
  [trigger |-> trigger, owner |-> owner, when |-> when, hours |-> hours, acts |-> acts]

\* a deferrable rule of the second agent, an assignment with a greeting, and an
\* assignment of silent leads
ThreeRules ==
  << Rule("lead.created", a2, "any", TRUE, <<"wait", "template">>),
     Rule("lead.created", None, "unassigned", FALSE, <<"assign", "template">>),
     Rule("no_response", None, "any", FALSE, <<"assign">>) >>

Occasion(id, trigger, lead, rule) == [id |-> id, trigger |-> trigger, lead |-> lead, rule |-> rule]
Occasions == { Occasion(1, "lead.created", l1, 0), Occasion(2, "workflow.execute", l2, 2),
               Occasion(3, "no_response", l3, 0) }
=============================================================================
