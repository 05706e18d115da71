----------------------------- MODULE Algorithms -----------------------------
(***************************************************************************)
(* The algorithms of the factory, each given one of the inputs it may      *)
(* meet, against what it is to compute: PluginManager.load and             *)
(* merge_cloud_plugin_content go through their loops, and a lookup and an  *)
(* answer are one step.                                                    *)
(***************************************************************************)
EXTENDS Lookups, Rest, FiniteSets

CONSTANTS
  Listings,     \* the files that PluginManager.load may find, in their order
  Wanted,       \* the templates' <<name, version, arch>> that plugins are sought for
  Clouds,       \* the targets that cloud plugins are sought for
  Sections,     \* the includes of a target_content.xml
  ThisBuild,    \* <<target, os, version, arch>> of the build they are sought for
  Merges,       \* the entries that cloud plugins may add
  Requests,     \* to the REST interface
  Settings      \* <<debug, no_oauth>>

IsList(s) == Len(s) \in Nat /\ s = [i \in 1 .. Len(s) |-> s[i]]

ASSUME ListingsAssumption ==
  \A files \in Listings :
    /\ IsList(files)
    /\ \A k \in DOMAIN files :
         /\ IsList(files[k].targets)
         /\ \A i \in DOMAIN files[k].targets :
              LET target == files[k].targets[i] IN
              /\ target = [form |-> target.form, says |-> target.says]
              /\ target.form \in Forms /\ IsList(target.says)
ASSUME SectionsAssumption == \A includes \in Sections : IsList(includes)
ASSUME MergesAssumption == \A entries \in Merges : IsList(entries)

\* A template has a name, a version and an architecture.
ASSUME ThisBuildAssumption == \A i \in 1 .. 4 : ThisBuild[i] # None

\* The dispatcher of bottle calls a handler only for a route that is registered.
ASSUME RequestsAssumption == \A r \in Requests : r.route \in Routes

VARIABLES
  input,        \* [kind, ...]: what is computed, and of what
  place,        \* the entry, and the target of it, that a loop is at
  made,         \* what has been computed so far
  over          \* whether that is all

computeVars == <<input, place, made, over>>

Inputs ==
  {[kind |-> "plugins", files |-> files] : files \in Listings}
  \cup {[kind |-> "include", includes |-> includes] : includes \in Sections}
  \cup {[kind |-> "merge", entries |-> entries] : entries \in Merges}
  \cup {[kind |-> "request", request |-> r, settings |-> s] : r \in Requests, s \in Settings}

\* What the template has before the merge.
Template == [name \in {"own"} |-> "template"]

ComputeInit ==
  /\ input \in Inputs
  /\ place = <<1, 1>>
  /\ made = CASE input.kind = "plugins" -> << >>
               [] input.kind = "merge" -> [map |-> Template, raised |-> FALSE]
               [] OTHER -> None
  /\ over = FALSE

-----------------------------------------------------------------------------
\* The loop is at the entry k.
At(k) == ~over /\ place[1] = k

(* PluginManager.load: for each file in the order of listdir, for each of  *)
(* its targets.                                                            *)
Known(file) == file.type \in PLUGIN_TYPES

RegisterTarget ==
  \E k \in DOMAIN input.files :
    LET file == input.files[k] IN
    /\ At(k) /\ Known(file) /\ place[2] \in DOMAIN file.targets
    /\ file.targets[place[2]].form # "other"
    /\ made' = Register(made, file.targets[place[2]], file.name)
    /\ place' = <<k, place[2] + 1>>
    /\ UNCHANGED <<input, over>>

\* A target that no key can be made of raises, and the rest of its file is passed
\* over; what the file has registered stays.
RefuseTarget ==
  \E k \in DOMAIN input.files :
    LET file == input.files[k] IN
    /\ At(k) /\ Known(file) /\ place[2] \in DOMAIN file.targets
    /\ file.targets[place[2]].form = "other"
    /\ place' = <<k + 1, 1>>
    /\ UNCHANGED <<input, made, over>>

\* A file of an unknown type, or without metadata, is passed over.
NextFile ==
  \E k \in DOMAIN input.files :
    LET file == input.files[k] IN
    /\ At(k) /\ (Known(file) => place[2] \notin DOMAIN file.targets)
    /\ place' = <<k + 1, 1>>
    /\ UNCHANGED <<input, made, over>>

LoadEnds ==
  /\ At(Len(input.files) + 1)
  /\ over' = TRUE
  /\ UNCHANGED <<input, place, made>>

load == input.kind = "plugins" /\ (RegisterTarget \/ RefuseTarget \/ NextFile \/ LoadEnds)

(* merge_cloud_plugin_content: for each entry, until one is bad.           *)
MergeEntry ==
  \E k \in DOMAIN input.entries :
    /\ At(k) /\ ~made.raised
    /\ made' = Merge(made, input.entries[k])
    /\ place' = IF made'.raised THEN place ELSE <<k + 1, 1>>
    /\ UNCHANGED <<input, over>>

MergeEnds ==
  /\ made.raised \/ At(Len(input.entries) + 1)
  /\ ~over /\ over' = TRUE
  /\ UNCHANGED <<input, place, made>>

merge_cloud_plugin_content == input.kind = "merge" /\ (MergeEntry \/ MergeEnds)

FindInclude ==
  /\ input.kind = "include" /\ ~over
  /\ made' = add_target_content(input.includes, ThisBuild)
  /\ over' = TRUE
  /\ UNCHANGED <<input, place>>

Answer ==
  /\ input.kind = "request" /\ ~over
  /\ made' = rest_api(input.request, input.settings[1], input.settings[2])
  /\ over' = TRUE
  /\ UNCHANGED <<input, place>>

Computed == over /\ UNCHANGED computeVars

Compute == load \/ merge_cloud_plugin_content \/ FindInclude \/ Answer \/ Computed
Computation == ComputeInit /\ [][Compute]_computeVars

Of(kind) == input.kind = kind /\ over

-----------------------------------------------------------------------------
\* The files of a type that is known that have a target, and before it none that
\* no key can be made of.
Reached(file, i) == \A j \in 1 .. i : file.targets[j].form # "other"
Offers(files, target) ==
  {k \in DOMAIN files :
     /\ files[k].type \in PLUGIN_TYPES
     /\ \E i \in DOMAIN files[k].targets : files[k].targets[i] = target /\ Reached(files[k], i)}

\* A pattern fits a target when it says the same from the left, and then nothing:
\* the number of elements that it says.
Fits(pattern, target) ==
  {n \in 1 .. 3 : \A i \in 1 .. 3 : pattern[i] = IF i <= n THEN target[i] ELSE None}

\* "Matches are done from left to right": whatever the order of the files and of
\* their targets, the plugin for a target is that of a pattern that fits, and no
\* pattern that fits says more; "When more than one plugin is found, the first
\* will be registered".  Only a target that is a list counts: one that is a string
\* is registered and then found by nobody, and one of neither form hides those
\* after it in its file.  For a template that nothing fits there is no plugin; for
\* a cloud that no file has the list of there is an exception
\* (PluginManager.py:54-155).
NearestPlugin ==
  Of("plugins") =>
    LET files == input.files
        Patterns ==
          UNION {{files[k].targets[i].says : i \in DOMAIN files[k].targets} : k \in DOMAIN files}
        First(p) == files[Min(Offers(files, AsList(p)))].name
    IN  /\ \A target \in Wanted :
             LET found == MatchList(made, target)
                 fitting ==
                   {p \in Patterns :
                      Len(p) = 3 /\ Offers(files, AsList(p)) # {} /\ Fits(p, target) # {}}
             IN  IF fitting = {} THEN found = None
                 ELSE \E p \in fitting :
                        /\ found = First(p)
                        /\ \A q \in fitting : \A m \in Fits(q, target) :
                             \E n \in Fits(p, target) : m <= n
        /\ \A cloud \in Clouds :
             MatchString(made, cloud) =
               IF Offers(files, AsList(<<cloud>>)) = {} THEN Raises ELSE First(<<cloud>>)

\* The attributes that a section has.
Given(include) == {i \in 1 .. 4 : include[i] # None}

\* The section that a build takes never contradicts it, and among the sections
\* that say the build's target, then its OS, and so on, with nothing left out in
\* between, none says more, and none that says as much comes before it
\* (TinMan.py:173-220, Nova.py:372-418).
NearestInclude ==
  Of("include") =>
    LET includes == input.includes
        chosen == made
        Applies(k) ==
          /\ \A i \in Given(includes[k]) : includes[k][i] = ThisBuild[i]
          /\ \A i \in Given(includes[k]) : 1 .. i \subseteq Given(includes[k])
        Size(k) == Cardinality(Given(includes[k]))
    IN  IF chosen = 0 THEN \A k \in DOMAIN includes : ~Applies(k)
        ELSE /\ Applies(chosen)
             /\ \A k \in DOMAIN includes :
                  Applies(k) => Size(k) < Size(chosen) \/ (Size(k) = Size(chosen) /\ k >= chosen)

\* After a merge every name has what the last entry with it gave, and the
\* template keeps the rest; when an entry is bad, which a body is too that base64
\* does not decode, the merge raises, and the template has what came before that
\* entry and nothing of what came after (TinMan.py:133-170, Nova.py:333-369).
MergedContent ==
  Of("merge") =>
    LET entries == input.entries
        bad == {k \in DOMAIN entries : Bad(entries[k])}
        good == IF bad = {} THEN DOMAIN entries ELSE 1 .. Min(bad) - 1
        Givers(name) == {k \in good : entries[k].name = name}
        map == made.map
    IN  /\ made.raised <=> bad # {}
        /\ DOMAIN map = {"own"} \cup {entries[k].name : k \in good}
        /\ \A name \in DOMAIN map :
             map[name] = IF Givers(name) = {} THEN "template"
                         ELSE Content(entries[Max(Givers(name))])

\* The answer to a request tells what was done for it: 202 and 204 come when a
\* thread was started and never otherwise, and an error comes when none was,
\* save that a client that accepts XML is told of an error by a factory that is
\* building its image (RESTv2.py:119-178, 259-295).
HonestAnswers ==
  Of("request") =>
    LET r == input.request
        done == made
    IN  /\ done.status \in {202, 204} => done.started
        /\ done.started => done.status \in {202, 204} \/ (r.route = "create" /\ r.accept = "xml")
        /\ done.stored /\ ~done.started => done.status = 500
=============================================================================
