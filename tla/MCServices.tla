------------------------------ MODULE MCServices ------------------------------
(* One object and one list of three items on two pages; one settings page,    *)
(* two sign-ins and the renewal; two MCP requests and one new configuration;  *)
(* two web questions to two providers; every body of five bytes in chunks of  *)
(* one or two.                                                                *)
EXTENDS Services, TLC

CONSTANTS object, list, first_provider, second_provider

\* The object and the list are below one name.
Namespaces == {{object, list}}

\* The code of the first sign-in may come twice, and after the second began.
Deliveries ==
  {[attempt |-> 1, by |-> "redirect"], [attempt |-> 1, by |-> "pasted"],
   [attempt |-> 1, by |-> "polled"]}

\* On for each session, on for all of them and reached differently, and off.
Servers ==
  {[enabled |-> TRUE, scope |-> "session", reached |-> 1],
   [enabled |-> TRUE, scope |-> "shared", reached |-> 2],
   [enabled |-> FALSE, scope |-> "session", reached |-> 1]}

WebOrders ==
  {[order |-> <<first_provider, second_provider>>, on |-> {first_provider, second_provider}],
   [order |-> <<second_provider, first_provider>>, on |-> {first_provider}]}

\* Stored values, requests and keys differ in nothing but what happens to them.
Alike == Permutations(Value) \cup Permutations(McpRequest) \cup Permutations(McpKeys)
=============================================================================
