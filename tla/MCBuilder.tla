----------------------------- MODULE MCBuilder -----------------------------
(* Small instances of Builder.                                             *)
EXTENDS Builder, TLC

CONSTANTS b1, b2, b3

Template(k) == [kind |-> k, template |-> TRUE, id |-> NoImage]
ById(k, i) == [kind |-> k, template |-> FALSE, id |-> i]
Both(k, i) == [kind |-> k, template |-> TRUE, id |-> i]
Neither(k) == [kind |-> k, template |-> FALSE, id |-> NoImage]

\* A cascade or a snapshot beside a request by ID, which may be malformed, or
\* give an ID that no image has.
CascadeRequests ==
  b1 :> {Template("provider"), Template("snapshot")}
  @@ b2 :> {ById("target", <<b1, "base">>), ById("provider", <<b1, "target">>),
            ById("target", <<b3, "base">>), Both("provider", <<b1, "target">>),
            Neither("snapshot")}
  @@ b3 :> {}

\* A base, a target that polls for it and a provider image that polls for that.
ChainRequests ==
  b1 :> {Template("base")}
  @@ b2 :> {ById("target", <<b1, "base">>)}
  @@ b3 :> {ById("provider", <<b2, "target">>)}
=============================================================================
