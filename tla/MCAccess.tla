---- MODULE MCAccess ----
(* Access with one person, one saved token and a few kinds of request.     *)
EXTENDS Access

Host(name) == {[name |-> name, port |-> NoPort]}
Origin(name) == {[scheme |-> "https", name |-> name, port |-> NoPort]}
Request(peer, bearer, user, post, path) ==
    [frame |-> IF post THEN "whole" ELSE "none", headers |-> "single",
     host |-> Host(IF user = NoOne THEN "localhost" ELSE "paper.ts.net"), origin |-> {},
     peer |-> peer, forwarding |-> user /= NoOne, bearer |-> bearer, user |-> user, email |-> NoOne,
     post |-> post, path |-> path]
Post == Request("loopback", NoOne, "ana", TRUE, "/api/pin")
ByPerson == {[Post EXCEPT !.origin = Origin("paper.ts.net")], Request("loopback", NoOne, "ana", FALSE, "/api/pins"),
             [Request("trusted", NoOne, "ana", TRUE, "/api/pin") EXCEPT !.email = "bo", !.host = Host("paper.org"),
                                                                       !.origin = Origin("paper.org")]}
ByAgent == {Request("loopback", "t1", NoOne, TRUE, "/api/pin"), Request("loopback", NoOne, NoOne, TRUE, "/api/pin")}
Odd == {[Post EXCEPT !.frame = f] : f \in {"short", "chunked", "oversized"}}
       \cup {[Post EXCEPT !.headers = "twice"], [Post EXCEPT !.origin = Origin("other.org")],
             [Post EXCEPT !.host = Host("other.org")], Request("remote", NoOne, "ana", TRUE, "/api/pin"),
             Request("loopback", NoOne, Malformed, TRUE, "/api/pin"),
             [Request("loopback", NoOne, NoOne, FALSE, "/nowhere") EXCEPT !.forwarding = TRUE]}
MCRequests == ByPerson \cup ByAgent \cup Odd

Option(auth, members, allow) ==
    [auth |-> auth, agentLoopback |-> TRUE, tailnetAgent |-> FALSE, membersOnly |-> members, allow |-> allow,
     originCheck |-> TRUE, byEmail |-> auth = "trusted-proxy",
     publicHosts |-> <<[name |-> "paper.org", port |-> NoPort], [name |-> "paper.org", port |-> 8443]>>]
MCSettings == {Option("tailscale", TRUE, {}), Option("tailscale", FALSE, {}), Option("local", FALSE, {}),
               Option("trusted-proxy", FALSE, {"bo"})}
Symmetric == Permutations(Conns) \cup Permutations(Shells)
MCListed == "ana" :> "editor"
MCMemberSteps == {[op |-> "role", login |-> "ana", role |-> "viewer"], [op |-> "remove", login |-> "ana", role |-> NoRole],
                  [op |-> "add", login |-> "bo", role |-> "owner"]}
Create(save, force) == [op |-> "create", save |-> save, force |-> force, print |-> FALSE]
MCTokenSteps == {Create(TRUE, FALSE), Create(TRUE, TRUE), [op |-> "revoke", token |-> "t1"]}
====
