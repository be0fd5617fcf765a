------------------------------ MODULE ToolPolicy ------------------------------
(***************************************************************************)
(* From the switches of an agent's Permissions card to a decision:         *)
(* object/permission_casbin.go, which compiles the card into the lines of  *)
(* a policy, and object/permission_tools.go, which says under which switch *)
(* a tool falls.  The first line that covers what is asked for decides,    *)
(* and what no line covers is denied, so everything hangs on the order.    *)
(*                                                                         *)
(* A pattern is the set of the objects it covers.  Lines of one effect     *)
(* that stand next to each other are one line here, which covers what any  *)
(* of them does, and a line the policy already holds changes nothing.      *)
(***************************************************************************)
EXTENDS Integers, Sequences

CONSTANTS
  Groups,     \* the groups of switches, in their order
  Item,       \* every switch: of the catalogue, of an MCP server, of one of its tools
  GroupOf,    \* the group of each
  Other,      \* the catch-all of each group that has one: "shell/other"
  Catalog,    \* the switches every agent has
  Tool,       \* the tools an agent may call
  ItemOf,     \* the switch each is held to, if any (ToolItemOf)
  OwnItemOf,  \* the switch it would have of its own (McpToolItemOf)
  NoItem,
  Named       \* what the two lists name: Named["model"] and Named["provider"]

Kind == {"model", "provider"}
GroupNames == {Groups[k] : k \in DOMAIN Groups}
Object == Item \cup Named["model"] \cup Named["provider"]

ASSUME PolicyAssumption ==
  /\ Groups \in Seq(GroupNames) /\ \A k, l \in DOMAIN Groups : Groups[k] = Groups[l] => k = l
  /\ GroupOf \in [Item -> GroupNames] /\ Catalog \subseteq Item
  /\ DOMAIN Other \subseteq GroupNames
  /\ \A g \in DOMAIN Other : Other[g] \in Catalog /\ GroupOf[Other[g]] = g
  /\ ItemOf \in [Tool -> Item \cup {NoItem}] /\ OwnItemOf \in [Tool -> Item \cup {NoItem}]
  /\ NoItem \notin Item
  /\ DOMAIN Named = Kind
  /\ Named["model"] \cap Named["provider"] = {} /\ (Named["model"] \cup Named["provider"]) \cap Item = {}

Line == [covers : SUBSET Object, effect : {"allow", "deny"}]
Allow(objects) == [covers |-> objects, effect |-> "allow"]
Deny(objects) == [covers |-> objects, effect |-> "deny"]

\* What is enforced of a card: the switches that were ever set, the rules
\* written by hand, and the two lists.
IsCard(card) ==
  /\ DOMAIN card.tools \subseteq Item /\ \A item \in DOMAIN card.tools : card.tools[item] \in BOOLEAN
  /\ card.rules \in Seq(Line)
  /\ \A kind \in Kind : /\ card.lists[kind].mode \in {"all", "allow", "deny"}
                        /\ card.lists[kind].covers \subseteq Named[kind]

\* DefaultAgentPermission: nothing was ever set.
DefaultCard ==
  [tools |-> <<>>, rules |-> <<>>, lists |-> [kind \in Kind |-> [mode |-> "all", covers |-> {}]]]

listed(card, item) == item \in DOMAIN card.tools
Off(card, item) == listed(card, item) /\ ~card.tools[item]

\* toolItemsByGroup: the catalogue's switches of a group, and the stored ones.
ItemsOf(card, g) == {item \in Catalog \cup DOMAIN card.tools : GroupOf[item] = g}

\* The catch-all of the group is off, or all of the group is.
Closed(card, g) ==
  \/ g \in DOMAIN Other /\ Off(card, Other[g])
  \/ ItemsOf(card, g) # {} /\ \A item \in ItemsOf(card, g) : Off(card, item)

appendList(card, kind) ==
  LET list == card.lists[kind]
      everything == Allow(Named[kind])
  IN CASE list.mode = "allow" -> << Allow(list.covers) >>
       [] list.mode = "deny" -> << Deny(list.covers), everything >>
       [] list.mode = "all" -> << everything >>

\* Fault: what is stored beside the catalogue takes nothing away.
ExceptionsOfCatalog(card, g) ==
  LET off == {item \in ItemsOf(card, g) \cap Catalog : Off(card, item)}
  IN  IF Closed(card, g) THEN Allow(ItemsOf(card, g) \ off) ELSE Deny(off)

\* A closed group keeps what is not off, and nothing else; any other loses
\* what is off.
Exceptions(card, g) ==
  LET off == {item \in ItemsOf(card, g) : Off(card, item)}
  IN  IF Closed(card, g) THEN Allow(ItemsOf(card, g) \ off) ELSE Deny(off)
Fallback(card, g) ==
  IF Closed(card, g) THEN Deny({item \in Item : GroupOf[item] = g}) ELSE Deny({})

\* Group after group, and what none of them took away.
appendToolRules(card) ==
  [s \in 1 .. 2 * Len(Groups) |->
     LET g == Groups[(s + 1) \div 2]
     IN  IF s % 2 = 1 THEN Exceptions(card, g) ELSE Fallback(card, g)]
  \o << Allow(Item) >>

PolicyRules(card) ==
  card.rules \o appendList(card, "model") \o appendList(card, "provider") \o appendToolRules(card)

\* The model's effect, priority(p.eft) || deny.
Allows(policy, object) ==
  \E i \in DOMAIN policy :
    /\ object \in policy[i].covers /\ policy[i].effect = "allow"
    /\ \A j \in DOMAIN policy : j < i => object \notin policy[j].covers

\* The switch a tool is held to: its own if somebody has set it.
SwitchOf(card, tool) == IF listed(card, OwnItemOf[tool]) THEN OwnItemOf[tool] ELSE ItemOf[tool]

AllowTool(card, tool) ==
  \/ SwitchOf(card, tool) = NoItem
  \/ Allows(PolicyRules(card), SwitchOf(card, tool))

\* AllowModel and AllowProvider.
AllowNamed(card, name) == Allows(PolicyRules(card), name)

\* What a guard is asked about: a tool, or a model or provider by name.
Use == Tool \cup Named["model"] \cup Named["provider"]
AllowUse(card, what) == IF what \in Tool THEN AllowTool(card, what) ELSE AllowNamed(card, what)

-----------------------------------------------------------------------------
(* What the card says, read off it switch by switch.                       *)

\* A switch that was set decides; one of the catalogue that nobody touched is
\* on; what has no switch at all goes with the rest of its group.
SwitchedOn(card, item) ==
  IF listed(card, item) THEN card.tools[item]
  ELSE item \in Catalog \/ ~Closed(card, GroupOf[item])

ListAllows(list, name) ==
  CASE list.mode = "all" -> TRUE
    [] list.mode = "allow" -> name \in list.covers
    [] list.mode = "deny" -> name \notin list.covers

\* The first rule written by hand that covers an object decides it, and the
\* switches and lists decide the rest.
Covered(card, object) == \E i \in DOMAIN card.rules : object \in card.rules[i].covers

SaysTool(card, tool) ==
  LET item == SwitchOf(card, tool)
  IN  \/ item = NoItem
      \/ IF Covered(card, item) THEN Allows(card.rules, item) ELSE SwitchedOn(card, item)

SaysNamed(card, name) ==
  IF Covered(card, name) THEN Allows(card.rules, name)
  ELSE \A kind \in Kind : name \in Named[kind] => ListAllows(card.lists[kind], name)

Says(card, what) == IF what \in Tool THEN SaysTool(card, what) ELSE SaysNamed(card, what)
=============================================================================
