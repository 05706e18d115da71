------------------------------ MODULE Lookups ------------------------------
(***************************************************************************)
(* How the factory finds what to use: the plugin for a target, and the     *)
(* section of target_content.xml for a build; and how what a cloud plugin  *)
(* asks for is merged into the template.                                   *)
(***************************************************************************)
EXTENDS Integers, Sequences, FiniteSetsExt

CONSTANT Undecodable   \* the bodies that base64.b64decode refuses

None == "none"
Raises == "raises"

\* A dictionary with one more entry; and with one more unless its name is taken.
Put(map, name, value) ==
  [x \in DOMAIN map \cup {name} |-> IF x = name THEN value ELSE map[x]]
IfNew(map, name, value) == IF name \in DOMAIN map THEN map ELSE Put(map, name, value)

-----------------------------------------------------------------------------
(***************************************************************************)
(* PluginManager.  A file is [name, type, targets].  A type None is a file *)
(* without one, or one that is not JSON.  A target is [form, says]: what   *)
(* tuple() can make a key of is a "list", of three with None for null or   *)
(* of one; a "string" stays one, and says that; of what is neither, as a   *)
(* number or a list of lists, there is no key.                             *)
(***************************************************************************)
PLUGIN_TYPES == {"OS", "CLOUD"}
Forms == {"list", "string", "other"}
AsList(pattern) == [form |-> "list", says |-> pattern]

\* Of two files with a target, the last in the listing.
RegisterLast(targets, target, name) == Put(targets, target, name)

\* Of two files with a target, the first in the listing is registered for it.
Register(targets, target, name) == IfNew(targets, target, name)

\* plugin_for_target of ("name", "version", "arch"): the elements become None one
\* by one, from the last.  There is no look for three times None.
MatchList(targets, target) ==
  LET Try(given) == AsList([i \in 1 .. 3 |-> IF i <= given THEN target[i] ELSE None])
      found == {n \in 1 .. 3 : Try(n) \in DOMAIN targets}
  IN  IF found = {} THEN None ELSE targets[Try(Max(found))]

\* plugin_for_target of a string: the key is the list of it, not the string.
MatchString(targets, target) ==
  IF AsList(<<target>>) \in DOMAIN targets THEN targets[AsList(<<target>>)] ELSE Raises

-----------------------------------------------------------------------------
(***************************************************************************)
(* target_content.xml: an include is <<target, os, version, arch>>, with   *)
(* None for an attribute that it does not have.                            *)
(***************************************************************************)
\* A query whose last conditions, that the attributes be absent, were left out.
SelectsLoosely(include, build, n) == \A i \in 1 .. n : include[i] = build[i]

\* [@target=... and @os=... and not(@version) and not(@arch)], with the first n.
Selects(include, build, n) ==
  \A i \in 1 .. 4 : include[i] = IF i <= n THEN build[i] ELSE None

\* From the most to the least specific query, the first section that the first
\* query to find any finds; 0 is none.
add_target_content(includes, build) ==
  LET found(n) == {k \in DOMAIN includes : Selects(includes[k], build, n)}
      useful == {n \in 0 .. 4 : found(n) # {}}
  IN  IF useful = {} THEN 0 ELSE Min(found(Max(useful)))

-----------------------------------------------------------------------------
(***************************************************************************)
(* merge_cloud_plugin_content: files, or commands, by name.  An entry is   *)
(* [name, type, body], with None for a key that is not there.              *)
(***************************************************************************)
Bad(entry) ==
  \/ entry.name = None \/ entry.body = None \/ entry.type \notin {"raw", "base64"}
  \/ entry.type = "base64" /\ entry.body # "" /\ entry.body \in Undecodable

Decoded(body) == IF body = "" THEN "" ELSE "decoded"
Content(entry) == IF entry.type = "raw" THEN entry.body ELSE Decoded(entry.body)

\* A merge that leaves an earlier entry of the same name alone.
MergeKeeping(merged, entry) ==
  IF Bad(entry) THEN [merged EXCEPT !.raised = TRUE]
  ELSE [merged EXCEPT !.map = IfNew(@, entry.name, Content(entry))]

\* What was merged before the first bad entry, which raises, stays.
Merge(merged, entry) ==
  IF Bad(entry) THEN [merged EXCEPT !.raised = TRUE]
  ELSE [merged EXCEPT !.map = Put(@, entry.name, Content(entry))]
=============================================================================
