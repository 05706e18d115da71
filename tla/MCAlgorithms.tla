---------------------------- MODULE MCAlgorithms ----------------------------
(* Inputs of each of the algorithms, all of them up to a small size.       *)
EXTENDS Algorithms

\* Two plugins, in both orders, each with one or two of the targets; MockOS has
\* one with all three elements, and the others have nulls.  One target is a string
\* that some ask for, and one is a number.
Targets ==
  {AsList(p) : p \in {<<"Fedora", None, None>>, <<"Fedora", "7", None>>, <<"Fedora", "7", "i386">>,
                      <<"Fedora", None, "i386">>, <<"ec2">>}}
  \cup {[form |-> "string", says |-> <<"ec2">>], [form |-> "other", says |-> << >>]}
Lists == {<<t>> : t \in Targets} \cup (Targets \X Targets)
File(name) == [name : {name}, type : {"OS", "NETWORK"}, targets : Lists]
PluginFiles ==
  {<<f>> : f \in File("TinMan")} \cup (File("TinMan") \X File("Nova"))

Templates == {"Fedora", "RHEL-7"} \X {"7", "8"} \X {"i386", "x86_64"}
CloudTargets == {"ec2", "rhevm"}

\* An attribute is that of the build, another, or not there.
OneBuild == <<"ec2", "Fedora", "7", "i386">>
Includes == {"ec2", "rhevm", None} \X {"Fedora", "RHEL-7", None} \X {"7", "8", None} \X {"i386", None}
IncludeLists == {<<i>> : i \in Includes} \cup (Includes \X Includes)

Entries == [name : {"own", "other", None}, type : {"raw", "base64", "gzip"}, body : {"", "body", "spoilt", None}]
Spoilt == {"spoilt"}
EntryLists ==
  {<< >>} \cup {<<e>> : e \in Entries} \cup (Entries \X Entries)

\* cherrypy, which imagefactoryd starts, answers requests in the threads of a pool.
\* The handlers are those of a WSGI application: under a server that calls it in
\* the main thread what comes after the making of the Builder is seen too.
AllRequests ==
  [route : Routes,
   accept : {"json", "xml", "other"}, oauth : {"good", "missing", "unknown"},
   content : {"form", "empty form", "json", "xml", "none"}, thread : {"main", "pool"},
   image : {"stored", "no body", "none"}, parent : {"stored", "none"},
   image_type : {"base_images", "target_images", "provider_images", "plugins", "other"}]
AllSettings == BOOLEAN \X BOOLEAN
=============================================================================
