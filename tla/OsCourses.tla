----------------------------- MODULE OsCourses -----------------------------
(***************************************************************************)
(* The methods of the OS plugins, and of the plugins that package an image *)
(* on this host, as courses.                                               *)
(*                                                                         *)
(* Oz, Nova Image Builder, libguestfs and the tools are external.  What Oz *)
(* leaves around an installation, and cleanup_install removes, is the one  *)
(* thing "artifacts".                                                      *)
(***************************************************************************)
EXTENDS CloudCourses

\* A method that makes the data file of an image.
MakesBody(steps, leaks) ==
  [Method EXCEPT !.steps = steps, !.gives = {"body"}, !.leaks = leaks]

-----------------------------------------------------------------------------
(* TinMan.                                                                 *)

TinManInitOz == Call("oz config")

\* An install script is written to a temporary file.
TinManInitGuest == Maybe(Make("script")) \o Call("guest factory")

\* A faulty variant: the lock is released on the way out only.
TinManMediaPlain == Lock("media") \o Make("artifacts") \o Unlock("media")
TinManMedia == Lock("media") \o Finally(Make("artifacts"), Unlock("media"))

\* Each part of the finally clause runs only when those before it went well.
TinManCleanup == Drop("artifacts") \o Drop("script") \o Drop("gfs")

TinManInstall ==
  Make("body") \o Call("install")
  \o Either(Call("customize") \o Maybe(Make("gfs") \o Call("icicle")), Call("customize"))

\* A faulty variant of TinManBase: the install script is forgotten.
TinManBaseScriptLeft ==
  MakesBody(Call("template") \o TinManInitOz \o TinManInitGuest \o Call("old guest")
              \o TinManMedia \o Finally(TinManInstall, Drop("artifacts") \o Drop("gfs")),
            {"body", "script", "gfs"})

TinManBase ==
  MakesBody(Call("template") \o TinManInitOz \o TinManInitGuest \o Call("old guest")
              \o TinManMedia \o Finally(TinManInstall, TinManCleanup),
            {"body", "script", "gfs"})

\* The method returns when nothing is to be customized.  A plugin that has made
\* the base image too writes the install script again, and nothing closes it.
TinManTarget ==
  [MakesBody(Make("body") \o Call("content")
               \o Maybe(TinManInitOz \o TinManInitGuest \o Call("guestfs")
                          \o Finally(Make("artifacts") \o Call("icicle"), Drop("artifacts"))),
             {"body", "script"})
     EXCEPT !.keeps = {"script"}]

-----------------------------------------------------------------------------
(* Nova.  No try: an exception leaves what there is.                       *)

NovaNetworks == Wait("networks")
NovaFloating == Ignore(Make("floating ip"))
NovaAddress == Either(NovaFloating, Patience("address") \o Maybe(NovaFloating)) \o Maybe(Raise)
NovaRoot == Wait("root") \o Set("root access")
NovaSsh == Wait("ssh")

NovaCustomize ==
  Make("instance") \o Make("group") \o NovaNetworks \o NovaAddress \o Maybe(NovaRoot)
  \o Call("oz config") \o NovaSsh \o Call("customize") \o Drop("root access")
  \o Drop("group") \o Call("shutoff")

NovaLeaves == {"jeos", "instance", "group", "floating ip", "root access", "image", "recorded"}

\* Nova Image Builder goes on when the wait for it is over.
NovaBase ==
  [Pushes(Call("prepare") \o Make("jeos") \o Wait("image builder") \o NovaCustomize
            \o Make("image") \o Set("recorded") \o Drop("instance"),
          {"jeos", "floating ip"}, NovaLeaves)
     EXCEPT !.aborts = {"jeos"}]

NovaTarget ==
  [Method EXCEPT
     !.steps = Call("content")
       \o Maybe(NovaCustomize \o Make("image") \o Set("recorded") \o Drop("instance")
                  \o Make("body")),
     !.keeps = {"image", "recorded", "body", "floating ip"},
     !.leaks = (NovaLeaves \ {"jeos"}) \cup {"body"}]

-----------------------------------------------------------------------------
(* IndirectionCloud: a utility image works on a scratch disk.              *)

IndirectionInitOz == Call("oz config")
IndirectionScratch == Make("scratch") \o Call("mkfs")
IndirectionRefresh == Call("customizations")
IndirectionCopyIn == Call("copy in")
IndirectionCopyOut == Make("body")

IndirectionWork ==
  Call("utility image") \o IndirectionInitOz \o IndirectionScratch
  \o Maybe(IndirectionRefresh) \o Make("utility") \o Maybe(IndirectionCopyIn)
  \o Finally(Make("artifacts"), Drop("artifacts")) \o IndirectionCopyOut

IndirectionTarget ==
  MakesBody(Finally(IndirectionWork, Drop("scratch") \o Drop("utility")),
            {"body", "utility"})

-----------------------------------------------------------------------------
(* Docker: the base image is mounted on this host and put into an archive. *)

\* umount fails where nothing is mounted, and then the directory stays.
DockerUnmount == Ignore(Drop("mount") \o Drop("mountdir")) \o Patience("thread")

DockerTar ==
  Finally(Make("mountdir") \o Make("mount") \o Make("body") \o Call("size"), DockerUnmount)

\* The archive is moved into the directory that becomes the new archive.
DockerMetadata ==
  Call("metadata")
  \o Finally(Make("layers") \o Call("files") \o Drop("body") \o Make("body"),
             Ignore(Drop("layers")))

DockerCompress == Make("tmp") \o Call("compress") \o Renamed

DockerTarget ==
  [MakesBody(Call("launch") \o DockerTar \o Maybe(DockerMetadata) \o Maybe(DockerCompress),
             {"mountdir", "body", "tmp"})
     EXCEPT !.keeps = {"mountdir"}]

-----------------------------------------------------------------------------
(* OVA, HyperV and the importer.                                           *)

OVAGenerate == Call("class") \o OVFPackage \o Call("make") \o Call("copy") \o OVFDelete

OVATarget ==
  [OnBody(Call("base image") \o OVAGenerate) EXCEPT !.leaks = {"body", "package"}]

HyperVTarget == OnBody(Converted)

\* The image is in the store before there is data.
Import ==
  [Method EXCEPT
     !.steps = Call("inspect") \o Make("stored") \o Make("body") \o Set("complete")
                 \o Call("save"),
     !.gives = {"stored", "body", "complete"},
     !.leaks = {"stored", "body", "complete"}]

-----------------------------------------------------------------------------
OsTable ==
  [tinman_base |-> TinManBase, tinman_target |-> TinManTarget,
   nova_base |-> NovaBase, nova_target |-> NovaTarget,
   indirection_target |-> IndirectionTarget, docker_target |-> DockerTarget,
   ova_target |-> OVATarget, hyperv_target |-> HyperVTarget, import |-> Import]
=============================================================================
