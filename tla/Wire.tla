-------------------------------- MODULE Wire --------------------------------
(***************************************************************************)
(* What travels between libdm and dmserver: the messages of message.cpp    *)
(* and the TCP connections that carry them.  A connection is identified by *)
(* the client that opened it, the server it leads to and the number of the *)
(* dm_init call that opened it; it stands for the ip:port pair the server  *)
(* uses as client id (Server::get_client_id).                              *)
(***************************************************************************)
EXTENDS Naturals, Sequences

CONSTANTS
  Clients,    \* processes linked with libdm
  Servers,    \* dmserver processes of the configuration file
  Blocks,     \* block ids the clients' configuration names
  Data,       \* contents of a block
  Zero,       \* the content of DIMBLOCK zero bytes
  NoData,     \* "this message carries no data key" (a shallow block)
  NoBlock,    \* "this message carries no block key"
  Owner,      \* Config::find_server_id_by_block_id as a function
  Hosted,     \* the blocks their owner really created from its own config
  MaxRev,     \* bound: highest revision a block reaches
  MaxInits,   \* bound: dm_init calls of one client
  MaxQueue    \* bound: requests unread in one connection

ASSUME WireAssumption ==
  /\ Zero \in Data /\ NoData \notin Data
  /\ Owner \in [Blocks -> Servers]
  /\ Hosted \subseteq Blocks
  /\ MaxRev \in Nat /\ MaxInits \in Nat /\ MaxQueue \in Nat \ {0}

Revs == 0 .. MaxRev
Conns == Clients \X Servers \X (1 .. MaxInits)

-----------------------------------------------------------------------------
(***************************************************************************)
(* Messages.  A request always names a block; base is a history field, not *)
(* on the wire: for a WRITE, the content the writer last shared with the   *)
(* server, before it stored into its local copy.                           *)
(***************************************************************************)
Calls == {"MAP", "UNMAP", "UPDATE", "WRITE", "WAIT"}

BlockInfo == [id : Blocks, rev : Revs, data : Data \cup {NoData}]

Request == [type : Calls, id : Blocks, rev : Revs,
            data : Data \cup {NoData}, base : Data \cup {NoData}]

ASSUME NoBlockAssumption == NoBlock \notin BlockInfo

Reply == [type : {"ACK", "NACK"}, block : BlockInfo \cup {NoBlock}]

\* Message::emit of a shallow block and of a whole one.
ShallowRequest(type, b) ==
  [type |-> type, id |-> b.id, rev |-> b.rev, data |-> NoData, base |-> NoData]
WriteRequest(b, content) ==
  [type |-> "WRITE", id |-> b.id, rev |-> b.rev, data |-> b.data, base |-> content]

Nack == [type |-> "NACK", block |-> NoBlock]
PlainAck == [type |-> "ACK", block |-> NoBlock]
ShallowAck(id, b) ==
  [type |-> "ACK", block |-> [id |-> id, rev |-> b.rev, data |-> NoData]]
FullAck(id, b) ==
  [type |-> "ACK", block |-> [id |-> id, rev |-> b.rev, data |-> b.data]]

\* Message::block parses into a new BlockServer, whose buffer is zeroed: a
\* shallow block arrives as zero bytes.
Content(b) == IF b.data = NoData THEN Zero ELSE b.data

\* blocks.find(id) in the server at the other end of connection k.
Found(k, id) == id \in Hosted /\ Owner[id] = k[2]

-----------------------------------------------------------------------------
VARIABLES
  link,   \* state of each connection: not opened yet, open, closed by the client
  req,    \* requests the server's thread has not finished with, oldest first
  rep     \* replies the client has not read, oldest first

wireVars == <<link, req, rep>>

WireTypeOK ==
  /\ link \in [Conns -> {"new", "open", "closed"}]
  /\ req \in [Conns -> Seq(Request)]
  /\ rep \in [Conns -> Seq(Reply)]

WireInit ==
  /\ link = [k \in Conns |-> "new"]
  /\ req = [k \in Conns |-> <<>>]
  /\ rep = [k \in Conns |-> <<>>]
=============================================================================
