-------------------------------- MODULE Rest --------------------------------
(***************************************************************************)
(* The handlers of RESTv2.py, as functions from a request to an answer: a  *)
(* status, whether a thread of a Builder was started and whether an image  *)
(* was stored.  What a handler raises inside its try, an HTTPResponse too, *)
(* is an Exception, for which it raises 500.                               *)
(*                                                                         *)
(* A request has a route, to a handler; what its Accept header allows; its *)
(* Authorization header, oauth; a content; the thread, the main one or one *)
(* of the server's pool, that it is handled in; whether the image (or the  *)
(* plugin) that it names exists; an image_type, which names a collection   *)
(* or is the type of the image; and, for a new image, the parent that the  *)
(* path names.                                                             *)
(***************************************************************************)
EXTENDS Naturals

Says(status) == [status |-> status, started |-> FALSE, stored |-> FALSE]
Leaves(status) == [status |-> status, started |-> FALSE, stored |-> TRUE]
Starts(status) == [status |-> status, started |-> TRUE, stored |-> TRUE]

\* except Exception as e: raise HTTPResponse(status=500)
Caught(answer) == IF answer.status >= 300 THEN [answer EXCEPT !.status = 500] ELSE answer

\* It raises for XML, after what it is to report has been done.
converted_response(r, answer) ==
  IF r.accept = "xml" THEN [answer EXCEPT !.status = 500] ELSE answer

-----------------------------------------------------------------------------
(***************************************************************************)
(* The decorators, from the outermost.                                     *)
(***************************************************************************)
\* With debug, log_request looks for a str in the bytes of the body, which raises.
log_request(debug, answer) == IF debug THEN Says(500) ELSE answer

\* That the header is missing is raised inside the try; a consumer without a
\* secret is an AttributeError.
oauth_protect(r, no_oauth, answer) ==
  IF no_oauth \/ r.oauth = "good" THEN answer
  ELSE IF r.oauth = "unknown" THEN Says(401)
  ELSE Says(500)

\* 'xml' is let through.
check_accept_header(r, answer) == IF r.accept = "other" THEN Says(406) ELSE answer

-----------------------------------------------------------------------------
(***************************************************************************)
(* Bodies.  dencode makes bytes of the keys, so that nothing is found      *)
(* under a str; form_data_for_content_type has a try of its own.           *)
(***************************************************************************)
Readable(content) == content \in {"form", "empty form", "json"}

\* What a body says, before dencode.
Keys == {"base_image", "target_image", "provider_image", "template", "provider",
         "credentials", "target"}
dencode(keys) == {[type |-> "bytes", text |-> key] : key \in keys}
Has(r, key) ==
  r.content # "empty form" /\ [type |-> "str", text |-> key] \in dencode(Keys)

\* A Builder sets a signal handler, which only the main thread may.
Builder(r, answered) == IF r.thread = "main" THEN answered ELSE Says(500)

\* A builder method stores the image before it looks at what it is to be made
\* from: all but a base image need a template or the ID of a parent.
Build(r) ==
  IF r.image_type = "base_images" \/ Has(r, "template") \/ r.parent = "stored" THEN Starts(202)
  ELSE Leaves(500)

\* image_collection[0:-1]
Singular(collection) ==
  CASE collection = "base_images" -> "base_image"
    [] collection = "target_images" -> "target_image"
    [] collection = "provider_images" -> "provider_image"
    [] OTHER -> "other"

CreateInside(r) ==
  CASE ~Readable(r.content) -> Says(500)
    [] r.content = "empty form" \/ (r.content = "json" /\ ~Has(r, Singular(r.image_type))) -> Says(400)
    [] OTHER ->
         CASE r.image_type \in {"base_images", "target_images"} -> Builder(r, Build(r))
           [] r.image_type = "provider_images" ->
                IF Has(r, "provider") /\ Has(r, "credentials") /\ Has(r, "target")
                THEN Builder(r, Build(r)) ELSE Says(400)
           [] OTHER -> Says(404)

create_image(r) ==
  LET answer == CreateInside(r)
  IN  Caught(IF answer.status = 202 THEN converted_response(r, answer) ELSE answer)

-----------------------------------------------------------------------------
\* Nothing is converted, so an Accept of XML does not matter.  A ProviderImage
\* needs values that are never found.
DeleteInside(r) ==
  IF r.image = "none" THEN Says(404)
  ELSE Builder(r,
         IF ~Readable(r.content) THEN Says(500)
         ELSE IF r.image_type = "provider_images" /\ ~Has(r, "provider") THEN Says(400)
         ELSE Starts(204))

\* A handler that takes an image that is not there for one that was deleted.
DeleteForgiving(r) == IF r.image = "none" THEN Says(204) ELSE Caught(DeleteInside(r))

delete_image_with_id(r) == Caught(DeleteInside(r))

\* images_from_query(...)[0] of nothing is an IndexError, for which 404 is raised,
\* inside the outer try; for an unknown collection, plugins is one, a KeyError.
get_plugins(r) == Caught(converted_response(r, IF r.image = "none" THEN Says(500) ELSE Says(200)))
list_images(r) ==
  Caught(IF r.image_type = "other" THEN Says(500) ELSE converted_response(r, Says(200)))
image_with_id(r) ==
  IF r.image_type = "plugins" THEN get_plugins(r)
  ELSE Caught(IF r.image_type = "other" THEN Says(500)
              ELSE IF r.image = "none" THEN Says(404)
              ELSE converted_response(r, list_images([r EXCEPT !.image_type = "target_images"])))

\* A body that is not on the disk is bottle's own answer, which is returned.
get_image_file(r) ==
  IF r.image = "none" THEN Caught(Says(404))
  ELSE IF r.image = "no body" THEN Says(404) ELSE Says(200)

api_info(r) == converted_response(r, Says(200))
get_jeos_config(r) == Caught(converted_response(r, Says(200)))
get_jeos_info(r) == IF r.image # "none" THEN Says(501) ELSE Caught(converted_response(r, Says(200)))
method_not_implemented == Says(501)

-----------------------------------------------------------------------------
Handle(r) ==
  CASE r.route = "create" -> create_image(r)
    [] r.route = "delete" -> delete_image_with_id(r)
    [] r.route = "list" -> list_images(r)
    [] r.route = "get" -> image_with_id(r)
    [] r.route = "file" -> get_image_file(r)
    [] r.route = "plugins" -> get_plugins(r)
    [] r.route = "info" -> api_info(r)
    [] r.route = "jeos" -> get_jeos_config(r)
    [] r.route = "jeos images" -> get_jeos_info(r)
    [] r.route = "targets" -> method_not_implemented

Routes == {"create", "delete", "list", "get", "file", "plugins", "info", "jeos", "jeos images",
           "targets"}
Protected == {"create", "delete", "list", "get", "file", "plugins"}

rest_api(r, debug, no_oauth) ==
  LET checked == check_accept_header(r, Handle(r))
  IN  log_request(debug, IF r.route \in Protected THEN oauth_protect(r, no_oauth, checked)
                         ELSE checked)
=============================================================================
