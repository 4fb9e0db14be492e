---------------------------- MODULE MCIngestion ----------------------------
(***************************************************************************)
(* What ingestion does to the database, side by side: Passages, Admission  *)
(* and Recovery, transactions that meet rows of others at READ COMMITTED;  *)
(* Library, the commands and versions that what is staged lives through;   *)
(* and Embedding, the way of a text into vectors.  `part' says which of    *)
(* them a behaviour is about.                                              *)
(*                                                                         *)
(* Admission: three messages that list the same attachments in different   *)
(* orders, one of them twice, and a scan that finds two of them as files;  *)
(* g is seen only under an ignored name.                                   *)
(*                                                                         *)
(* Recovery: f is found like anything an interrupted or finished ingestion *)
(* leaves, h is stale and waits for its source; a plan takes one document  *)
(* of each status.                                                         *)
(*                                                                         *)
(* Library: a note that holds an archive and a mail that holds the archive *)
(* and the picture in it, staged at one path.  The next version reads      *)
(* pictures as such, and no archives.                                      *)
(*                                                                         *)
(* Embedding: two lanes with their common cache, which holds everything or *)
(* two vectors.  The documents share a piece, and one may be blank.        *)
(***************************************************************************)
EXTENDS MCPassages, Admission, Recovery, Library, Embedding

CONSTANTS m1, m2, m3, scan, u, v, w, g, f, h, place, note, mail, zip, pic,
          e1, e2, p1, p2

MCListed ==
    m1 :> <<u, v, g>> @@ m2 :> <<w, v, u>> @@ m3 :> <<v, w, v>> @@ scan :> <<w, u>>
MCHash == u :> 1 @@ v :> 2 @@ w :> 3 @@ g :> 4

OneJob(state, live) == [state |-> state, gen |-> 1, live |-> live]
Stored(found, why, stages, inside) ==
    [file |-> [status |-> found, reason |-> why], jobs |-> stages, hold |-> inside]
Waiting == Stored("PENDING", "none", <<OneJob("WAITING_SOURCE", FALSE), NoJob>>, <<0, 0>>)
MCFound ==
    h :> {Waiting} @@
    f :> {Waiting,
          Stored("PENDING", "none", <<NoJob, NoJob>>, <<0, 0>>),
          Stored("FAILED", "terminal", <<NoJob, NoJob>>, <<0, 0>>),
          Stored("PENDING", "none", <<OneJob("RUNNING", FALSE), NoJob>>, <<1, 0>>),
          Stored("PROCESSING", "none", <<OneJob("COMPLETED", FALSE), OneJob("RUNNING", TRUE)>>, <<0, 1>>),
          Stored("FAILED", "retryable", <<OneJob("COMPLETED", FALSE), OneJob("FAILED", FALSE)>>, <<0, 0>>),
          Stored("FAILED", "terminal", <<OneJob("FAILED", FALSE), NoJob>>, <<0, 0>>)}

MCParts == note :> {zip} @@ mail :> {zip, pic} @@ zip :> {pic} @@ pic :> {}
MCRoute ==
    <<note :> "email" @@ mail :> "email" @@ zip :> "archive"  @@ pic :> "text",
      note :> "email" @@ mail :> "email" @@ zip :> "declined" @@ pic :> "pdf">>

Rows == <<"w", "d", "d", "d", "d", "d", "d", "m", "c", "c", "d", "d", "d", "d">>
Prose == <<"s", "s", "n", "n", "s", "m", "c", "s", "s", "w", "s", "s">>
MCTextOf == p1 :> {Rows} @@ p2 :> {<<"w">>, <<"s", "s", "s", "w", "d", "d", "n">>}
\* Prose, and every sequence of five of these.
Letters == {<<"s">>, <<"n">>, <<"w">>, <<".">>, <<"m", "c", "c">>}
MCSamples == {Prose} \union {FlattenSeq(t) : t \in [1..5 -> Letters]}

VARIABLE part

allVars == <<part, vars, admissionVars, recoveryVars, libraryVars, embeddingVars>>

MCInit ==
    /\ part \in {"passages", "admission", "recovery", "library", "embedding"}
    /\ Init /\ AdmissionInit /\ RecoveryInit /\ LibraryInit /\ EmbeddingInit
    /\ part # "recovery" => file[f].status = "PROCESSING"
    /\ part # "library" => disk[place] = None /\ doc[zip] = NoDocument
    /\ part # "embedding" => cacheBytes = Max(CacheSizes) /\ pieces[p2] = <<>>

MCNext ==
    /\ UNCHANGED part
    /\ \/ part = "passages" /\ Next
          /\ UNCHANGED <<admissionVars, recoveryVars, libraryVars, embeddingVars>>
       \/ part = "admission" /\ AdmissionNext
          /\ UNCHANGED <<vars, recoveryVars, libraryVars, embeddingVars>>
       \/ part = "recovery" /\ RecoveryNext
          /\ UNCHANGED <<vars, admissionVars, libraryVars, embeddingVars>>
       \/ part = "library" /\ LibraryNext
          /\ UNCHANGED <<vars, admissionVars, recoveryVars, embeddingVars>>
       \/ part = "embedding" /\ EmbeddingNext
          /\ UNCHANGED <<vars, admissionVars, recoveryVars, libraryVars>>

\* AdmissionFairness and LibraryFairness.
MCSpec ==
    /\ MCInit
    /\ [][MCNext]_allVars
    /\ \A k \in Actors : WF_admissionVars(part = "admission" /\ AdmissionStep(k))
    /\ WF_libraryVars(part = "library" /\ (Ingest \/ Scanning \/ Closing \/ Judging))
    /\ \A k \in Contents : WF_libraryVars(part = "library" /\ (Claim(k) \/ Work(k)))

\* EveryMemberHeld, of the behaviours about admission.
MembersHeld == <>[](part = "admission" => MembersKept)
=============================================================================
