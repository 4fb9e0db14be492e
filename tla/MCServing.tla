----------------------------- MODULE MCServing -----------------------------
(***************************************************************************)
(* What clients page through, side by side: the store of evidence          *)
(* snapshots, the pages of one evidence result, a mailbox, documents       *)
(* fetched by name, and a question on its way through retrieval.  `part'   *)
(* says which of them a behaviour is about.                                *)
(*                                                                         *)
(* Snapshots: a store of two snapshots and three bytes, and results        *)
(* delivered at once (small), paged (long), paged up to an item that never *)
(* fits (wide) and too large to keep (huge).  Mailbox: three messages, of  *)
(* one date or none, from the owner or to them; a behaviour ends with the  *)
(* series.  Evidence: every result of at most two packets and two texts of *)
(* up to four characters.  Documents: three, of which a lookup returns two, *)
(* texts with blank lines and characters of two bytes, read again with     *)
(* other text or attachments.                                              *)
(* Retrieval: two e-mails that carry the same attachment or one inside the *)
(* other, two sub-queries, a pool of three with floors of one, two results *)
(* and a budget that not every text fits in.                               *)
(***************************************************************************)
EXTENDS Snapshots, Mailbox, Reading, Retrieval, TLC

CONSTANTS small, long, wide, huge, r1, r2, r3, c1, c2, me, you, here, there,
          d1, d2, d3

MCSize == small :> 1 @@ long :> 1 @@ wide :> 2 @@ huge :> 4
MCPages == small :> 1 @@ long :> 3 @@ wide :> 3 @@ huge :> 2
MCUnfit == small :> 0 @@ long :> 0 @@ wide :> 2 @@ huge :> 0
MCSymmetry == Permutations({r1, r2, r3}) \union Permutations({c1, c2})

MCDomainOf == me :> here @@ you :> there
Letter(sentAt, from, to) == [sentAt |-> sentAt, from |-> {from}, to |-> {to}]
MCParsed ==
    1 :> {Letter(0, you, me), Letter(1, you, me)} @@ 2 :> {Letter(1, me, you)}
    @@ 3 :> {Letter(1, you, me)}
Query(order, sender, recipient, direction, after, before) ==
    [order |-> order, sender |-> sender, recipient |-> recipient,
     direction |-> direction, after |-> after, before |-> before]
MCRequests ==
    {Query("newest_first", Unset, Unset, Unset, Unset, Unset),
     Query("oldest_first", there, me, "inbound", Unset, Unset),
     Query("oldest_first", Unset, Unset, "outbound", 1, 2)}

Characters == {<<"s">>, <<"s", "c">>, <<"n">>, <<"s", "c", "c", "c">>}
MCTexts == {FlattenSeq(chars) : chars \in UNION {[1..n -> Characters] : n \in 1..4}}
MCResults ==
    [index : {<<>>, <<2>>, <<1, 3>>, <<6>>},
     items : {<<>>} \union {<<t>> : t \in MCTexts} \union
             {<<t, <<"s", "c">> >> : t \in MCTexts}]

Revision(doc, text, parts) == [doc |-> doc, text |-> text, parts |-> parts]
MCRevisions ==
    d1 :> {Revision(d1, <<"s", "n", "n", "s", "s">>, <<>>),
           Revision(d1, <<>>, <<"a", "b", "c">>)} @@
    d2 :> {Revision(d2, <<"s", "s", "c", "s", "c", "n">>, <<"a", "b">>),
           Revision(d2, <<"s", "s", "c">>, <<"a">>)} @@
    d3 :> {Revision(d3, <<"s">>, <<>>)}

P(d) == <<d, 1>>
MCContent == P(1) :> "k" @@ P(2) :> "k" @@ P(3) :> "m" @@ <<3, 2>> :> Blank
MCBytes == <<2, 1, 1, 1>>
MCDecomposed == {<<>>, <<"a">>, <<"a", Blank, "a", "b">>}
MCOneQuery == {<<>>}
MCLegs == {<<>>, <<P(1), P(2), P(3)>>, <<P(3), <<3, 2>>, P(2)>>}
MCTrees ==
    {[parent |-> <<0, 0, 1, 2>>, placed |-> {<<1, 3>>, <<2, 3>>, <<2, 4>>},
      pending |-> {4}, text |-> 0],
     [parent |-> <<0, 1, 1, 0>>, placed |-> {<<1, 2>>},
      pending |-> {4}, text |-> 1]}
VARIABLE part

MCInit ==
    /\ part \in {"snapshots", "mailbox", "documents", "evidence", "retrieval"}
    /\ Init /\ MailboxInit /\ ReadingInit
    /\ part # "evidence" => result = CHOOSE r \in MCResults : TRUE
    /\ \E tree \in IF part = "retrieval" THEN MCTrees ELSE {CHOOSE t \in MCTrees : TRUE} :
          RetrievalInit(tree)
MCNext ==
    /\ UNCHANGED part
    /\ \/ /\ part = "snapshots" /\ Next
          /\ UNCHANGED <<mailboxVars, evidenceVars, documentsVars, retrievalVars>>
       \/ /\ part = "mailbox" /\ listing.at # "finished" /\ MailboxNext
          /\ UNCHANGED <<vars, evidenceVars, documentsVars, retrievalVars>>
       \/ /\ part = "evidence" /\ EvidenceNext
          /\ UNCHANGED <<vars, mailboxVars, documentsVars, retrievalVars>>
       \/ /\ part = "documents" /\ DocumentsNext
          /\ UNCHANGED <<vars, mailboxVars, evidenceVars, retrievalVars>>
       \/ /\ part = "retrieval" /\ RetrievalNext
          /\ UNCHANGED <<vars, mailboxVars, evidenceVars, documentsVars>>
MCSpec ==
    MCInit /\ [][MCNext]_<<part, vars, mailboxVars, evidenceVars, documentsVars, retrievalVars>>
=============================================================================
