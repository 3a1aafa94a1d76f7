------------------------------ MODULE MCStoreTx ------------------------------
\* An instance of StoreTx: the hub joins a device and renames its user or joins
\* it again, beside two uploads.
EXTENDS StoreTx

CONSTANTS h1, h2, u1, u2, laptop, port1, port2

MCText == {"", "acme", "beta", "code1", "code2", "alice", "bob", "carol"}
Same == [t \in MCText |-> t]
MCHandlePattern == {"alice", "bob", "carol"}

JoinOf(ws, code, fp, handle) == [kind |-> "join", ws |-> ws, code |-> code, fp |-> fp, handle |-> handle]
RenameOf(t, handle) == [kind |-> "rename", of |-> t, handle |-> handle]

MCHubTx == <<h1, h2>>
MCRequest == [t \in Tx |->
  CASE t = h1 -> {JoinOf("acme", "code1", laptop, "alice")}
    [] t = h2 -> {RenameOf(h1, "bob"), RenameOf(h1, "carol"), JoinOf("acme", "code1", laptop, "")}
    [] t = u1 -> {JoinOf("acme", "code1", port1, "alice"), JoinOf("beta", "code2", port1, "alice")}
    [] OTHER  -> {JoinOf("acme", "code1", port2, h) : h \in {"alice", "bob", "carol"}}
                   \cup {JoinOf("acme", "code2", port2, "bob"), JoinOf("beta", "code2", port2, "bob")}]
=============================================================================
