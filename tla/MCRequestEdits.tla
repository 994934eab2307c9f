-------------------------- MODULE MCRequestEdits --------------------------
(* Assistant messages of up to two blocks of every kind, signed and not, that a
   trailing token may close; and one request with a user message and tools. *)
EXTENDS RequestEdits
CONSTANTS t1, t2, c1, c2, k1, k2, p, s1

Accepted(kind, body, sig) ==
  [kind |-> kind, body |-> body, sig |-> sig, is_error |-> None, origin |-> 0]
UnknownArm == [arm |-> "unknown", body |-> p]
CacheArm(k) == [arm |-> "cache", body |-> k]

Catalog ==
  {Accepted("text", t1, s1), Accepted("text", t2, None), Accepted("thinking", t1, s1),
   Accepted("tool_use", c1, s1), Accepted("cache", k1, None),
   Accepted("tool_result", <<CacheArm(k1), TextArm(t1)>>, s1),
   Accepted("tool_result", <<TextArm(t2)>>, None),
   Accepted("tool_result",
            <<UnknownArm, TextArm(t1), CacheArm(k1), TextArm(t2), CacheArm(k1)>>, s1)}
Trailing == Accepted("trailing", None, s1)

Numbered(role, blocks) ==
  [role |-> role, blocks |-> [j \in DOMAIN blocks |-> [blocks[j] EXCEPT !.origin = j]]]

Single == {<<b>> : b \in Catalog}
Double == {d \in Catalog \X Catalog : d[1].kind = d[2].kind => d[1].kind = "text"}
Sealed(bodies) == bodies \cup {Append(b, Trailing) : b \in bodies}

Request(tools, bodies) ==
  [tools |-> tools,
   messages |-> [i \in DOMAIN bodies |->
                  Numbered(IF i = 1 THEN "assistant" ELSE "user", bodies[i])]]

\* In the last request the prefix may end at the tool or in either message.
MCRequests ==
  {Request(<<None>>, <<b>>) : b \in Sealed(Single \cup Double)}
  \cup {Request(<<k1, None>>, <<<<Accepted("text", t1, s1)>>, <<Accepted("cache", k1, None)>>>>)}
NoReply == <<accepted, request, touched, phase>>
=============================================================================
