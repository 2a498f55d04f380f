--------------------------- MODULE MCScanVerdict ---------------------------
(* Chunks at every band and boundary of the scanner's thresholds.          *)
EXTENDS ScanVerdict

Text(kind, mcp, skill) == [kind |-> kind, mcp |-> mcp, skill |-> skill, like |-> 0]

\* Manifest rules: a built-in's name and one that imitates it, and a chunk
\* for each kind of text and band.
McpContents ==
    {Text("name", {BUILTIN_NAME}, {}), [Text("name", {}, {}) EXCEPT !.like = 1],
     Text("text", {1, 4}, {}), Text("text", {CREDENTIALS}, {}), Text("text", {LONG}, {}),
     Text("schema", {LONG, CREDENTIALS}, {}), Text("uri", {BAD_URI}, {}),
     Text("server", {5}, {}), Text("bare", {}, {})}

\* Skill rules: all the informational ones, two medium ones, a strong one,
\* three high ones, and the mildest critical one.
SkillContents ==
    {Text("text", {}, 34..40), Text("text", {}, {25, 26}), Text("text", {}, {24}),
     Text("text", {}, {18, 19, 20}), Text("text", {}, {9})}

\* The two together.
AllContents == McpContents \union SkillContents
=============================================================================
