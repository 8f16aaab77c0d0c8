----------------------------- MODULE TxEnvelope -----------------------------
(***************************************************************************)
(* What one queued transaction says, from the argument a view hands to     *)
(* TransactionHandler to the bytes the chain checks.  Each action is       *)
(* written down seven times, by hand and in three languages: the method    *)
(* that enqueues it, its final_transaction, its proof-of-work preimage,    *)
(* its signed canonical form, the body it relays, the message the backend  *)
(* builds from that body and the bytes the chain rebuilds from that        *)
(* message.  Each of those is a table here, a row per action, and the      *)
(* state machine runs a request through all of them while the chain moves  *)
(* on, the subscription changes and rejected work is retried.              *)
(*                                                                         *)
(* Text is abstracted to what the conversions tell apart: the word, and    *)
(* whether it has upper case, surrounding space or an inner control        *)
(* character.  The message type, the public key and the byte layout of a   *)
(* field are left out: a canonical form is the sequence of its tagged      *)
(* values.                                                                 *)
(***************************************************************************)
EXTENDS Integers, Sequences, FiniteSets, TLC, SequencesExt, FiniteSetsExt

CONSTANTS
  Actions,          \* the actions requested, a subset of DOMAIN Enqueue
  Styles,           \* how a text typed by the user may be written
  W,                \* width of a proof and of a vote direction: 32 in the code
  MAX_POW_RETRIES,  \* 3 in the code
  HashWindow,       \* blocks for which the chain remembers a hash
  MaxTime,          \* bound on the clock, counted in blocks
  MaxChanges        \* bound on changes of the subscription

ASSUME EnvelopeAssumption ==
  /\ Styles \subseteq {"plain", "upper", "padded", "broken", "empty"}
  /\ "plain" \in Styles
  /\ W \in Nat \ {0} /\ MAX_POW_RETRIES \in Nat /\ HashWindow \in Nat
  /\ MaxTime \in Nat /\ MaxChanges \in Nat

VARIABLES
  chain,  \* the clock, the required difficulty, whether the signer has paid
  level,  \* user_level in Storage: the client's copy of the tier
  tx      \* the one transaction in flight

vars == <<chain, level, tx>>

-----------------------------------------------------------------------------
(* Values and conversions.                                                 *)

Text(word, style) ==
  [word |-> IF style = "empty" THEN "" ELSE word,
   up |-> style = "upper", pad |-> style = "padded", ctl |-> style = "broken"]

Empty == Text("", "empty")
Lower(s) == [s EXCEPT !.up = FALSE]
Trim(s) == [s EXCEPT !.pad = FALSE]

\* The signing account, as derived from the seed and stored: lower case.
Me == Text("me", "plain")

\* A conversion named in a row.  "printable" is what the backend does to a
\* report's reason; "unique" is claimCreatorRewards' sorted set of epochs.
Convert(how, v) ==
  CASE how = "lower" -> Lower(v)
    [] how = "trim" -> Trim(v)
    [] how = "clean" -> Lower(Trim(v))
    [] how = "printable" -> [Trim(v) EXCEPT !.ctl = FALSE]
    [] how = "u32" -> v % 2^W
    [] how = "flag" -> IF v THEN 1 ELSE 0
    [] how = "unique" -> SetToSortSeq(ToSet(v), <)
    [] OTHER -> v

\* A field no one set reads as the zero of its type.
Numbers == {"mode", "pinned_team_id", "team_id", "direction", "amount",
            "level", "period_count", "protocol_version"}
Get(f, name) ==
  CASE name \in DOMAIN f -> f[name]
    [] name = "signer" -> Me
    [] name = "one" -> 1
    [] name \in {"media", "epoch_ids"} -> <<>>
    [] name \in Numbers -> 0
    [] OTHER -> Empty

\* The tagged values a list of rows <<tag, field, conversion>> writes.
EncodeRow(row, f) ==
  LET v == Get(f, row[2])
  IN  IF row[3] = "each" THEN [i \in DOMAIN v |-> <<row[1], v[i]>>]
      ELSE IF row[3] = "unless empty" /\ v = Empty THEN <<>>
      ELSE << <<row[1], Convert(row[3], v)>> >>
Encode(rows, f) == FlattenSeq([i \in DOMAIN rows |-> EncodeRow(rows[i], f)])

\* The record a row of <<source, conversion>> per field builds.
Build(row, f) == [name \in DOMAIN row |-> Convert(row[name][2], Get(f, row[name][1]))]

-----------------------------------------------------------------------------
(* The methods a view calls.  A row gives, for each field of the queue     *)
(* entry, the argument it is taken from, the conversion and what is        *)
(* refused: "some" refuses an empty value, "exact" also a padded one.      *)

Raw(arg) == <<arg, "raw", "any">>
Trimmed(arg) == <<arg, "trim", "any">>
Id(arg) == <<arg, "clean", "some">>
TagOf(arg) == <<arg, "clean", "any">>

Team == [community |-> Id("community"), team_id |-> Raw("team_id")]
TeamAnd(field) == Team @@ (field :> Id(field))

EnqueueProfile ==
  [set_username |-> [username |-> <<"username", "trim", "some">>],
   set_biography |-> [biography |-> Trimmed("biography")]]

EnqueueTeams ==
  LET profile == [name |-> <<"name", "raw", "exact">>, description |-> Trimmed("description")]
  IN  [create_curation_team |-> profile @@ [community |-> Id("community")],
       set_curation_team_profile |-> profile @@ Team,
       invite_curator |-> TeamAnd("target"),
       revoke_curator_invite |-> TeamAnd("target"),
       accept_curator_invite |-> Team,
       decline_curator_invite |-> Team,
       remove_curator |-> TeamAnd("target"),
       leave_curation_team |-> Team,
       transfer_curation_team |-> TeamAnd("new_owner"),
       delete_curation_team |-> Team]

EnqueueModeration ==
  [set_curation_post_hidden |-> TeamAnd("target") @@ [hidden |-> Raw("hidden")],
   set_curation_user_hidden |-> TeamAnd("target") @@ [hidden |-> Raw("hidden")],
   set_curation_thread_locked |-> TeamAnd("root_hash") @@ [locked |-> Raw("locked")],
   set_curation_subscriber_only |-> Team @@ [enabled |-> Raw("enabled")],
   set_curation_tag |-> Team @@ [tag |-> TagOf("tag")],
   set_curation_post_tag |->
     TeamAnd("target") @@ [tag |-> TagOf("tag"), clear |-> Raw("clear")],
   set_curation_preference |->
     [community |-> Id("community"), mode |-> Raw("mode"),
      pinned_team_id |-> Raw("pinned_team_id")],
   claim_creator_rewards |-> [epoch_ids |-> <<"epoch_ids", "unique", "any">>]]

EnqueuePostBlocks ==
  [block_post |-> [target |-> Id("target")], unblock_post |-> [target |-> Id("target")]]
EnqueueUserBlocks ==
  [block_user |-> [target |-> Id("target")], unblock_user |-> [target |-> Id("target")]]
EnqueueCommunityBlocks ==
  LET row == [community |-> Id("community"), target |-> Raw("signer")]
  IN  [block_community |-> row, unblock_community |-> row]
EnqueueFollows ==
  [follow_user |-> [user |-> Id("user")], unfollow_user |-> [user |-> Id("user")]]
EnqueueMemberships ==
  [join_community |->
     [community |-> Id("community"), mode |-> Raw("mode"),
      pinned_team_id |-> Raw("pinned_team_id")],
   leave_community |-> [community |-> Id("community")]]

EnqueueTransfers ==
  [report |-> [target |-> Id("target"), reason |-> <<"reason", "trim", "some">>],
   send_tokens |-> [target |-> Id("target"), amount |-> Raw("amount")],
   award |-> [target |-> Id("target"), award_type |-> <<"award_type", "trim", "some">>]]
EnqueueSubscriptions ==
  [subscribe |-> [level |-> Raw("one"), target |-> TagOf("target"), period_count |-> Raw("one")],
   set_auto_renewal |-> [auto_renew |-> Raw("auto_renew")]]
EnqueueChanges ==
  [delete_user |-> [target |-> Id("signer")],
   delete_post |-> [target |-> Id("target")],
   edit_post |->
     [override |-> Id("override"), target |-> Trimmed("target"),
      community |-> Trimmed("community"), title |-> Trimmed("title"),
      content |-> Trimmed("content"), tag |-> TagOf("tag"), media |-> Raw("media")]]
EnqueueContent ==
  [create_vote |-> [parentId |-> Raw("parentId"), direction |-> Raw("direction")],
   create_post |->
     [community |-> Raw("community"), title |-> Raw("title"), content |-> Raw("content"),
      tag |-> TagOf("tag"), media |-> Raw("media")],
   create_comment |-> [parentId |-> Raw("parentId"), content |-> Raw("content")]]

Enqueue ==
  EnqueueProfile @@ EnqueueTeams @@ EnqueueModeration @@ EnqueuePostBlocks
    @@ EnqueueUserBlocks @@ EnqueueCommunityBlocks @@ EnqueueFollows @@ EnqueueMemberships
    @@ EnqueueTransfers @@ EnqueueSubscriptions @@ EnqueueChanges @@ EnqueueContent

\* Mutant: a cleared tag is sent with the text that was typed.
EntryKeepsTag(a, req) ==
  LET e == Build(Enqueue[a], req)
  IN  IF a \in {"join_community", "set_curation_preference"} /\ req.mode # 1
      THEN [e EXCEPT !.pinned_team_id = 0] ELSE e

\* The queue entry of a request.  A team counts only in pinned mode, and a
\* cleared tag is sent empty whatever was typed.
Entry(a, req) ==
  LET e == Build(Enqueue[a], req)
  IN  CASE a \in {"join_community", "set_curation_preference"} /\ req.mode # 1 ->
             [e EXCEPT !.pinned_team_id = 0]
        [] a = "set_curation_post_tag" /\ req.clear -> [e EXCEPT !.tag = Empty]
        [] OTHER -> e

\* Whether the method turns the request away.
Refuses(a, req) ==
  \E name \in DOMAIN Enqueue[a] :
    LET row == Enqueue[a][name]
    IN  /\ row[3] \in {"some", "exact"}
        /\ \/ Get(req, row[1]).word = ""
           \/ row[3] = "exact" /\ Get(req, row[1]).pad

-----------------------------------------------------------------------------
(* processTransactions: the final_transaction of an entry.  Rows give the  *)
(* entry's field and a conversion.  An action without a row keeps its      *)
(* fields as they are, the curation actions those of CURATION_TX_SPECS.    *)

FinalContent ==
  [create_vote |-> [target |-> <<"parentId", "raw">>, direction |-> <<"direction", "raw">>],
   create_comment |-> [target |-> <<"parentId", "raw">>, content |-> <<"content", "raw">>]]
FinalCommunity ==
  [join_community |-> [community |-> <<"community", "lower">>],
   leave_community |-> [community |-> <<"community", "lower">>],
   block_community |-> [target |-> <<"target", "raw">>, community |-> <<"community", "lower">>],
   unblock_community |-> [target |-> <<"target", "raw">>, community |-> <<"community", "lower">>]]
FinalRow(a) ==
  LET rows == FinalContent @@ FinalCommunity
  IN  IF a \in DOMAIN rows THEN rows[a] ELSE [n \in DOMAIN Enqueue[a] |-> <<n, "raw">>]

\* CURATION_TX_SPECS: both byte strings of a curation action, by one table.
TeamRows(more) == << <<100, "community", "raw">>, <<101, "team_id", "raw">> >> \o more
CurationTxSpecs ==
  LET target == <<102, "target", "raw">>
  IN  [create_curation_team |->
         << <<100, "community", "raw">>, <<101, "name", "raw">>, <<102, "description", "raw">> >>,
       set_curation_team_profile |->
         TeamRows(<< <<102, "name", "raw">>, <<103, "description", "raw">> >>),
       invite_curator |-> TeamRows(<<target>>),
       revoke_curator_invite |-> TeamRows(<<target>>),
       accept_curator_invite |-> TeamRows(<<>>),
       decline_curator_invite |-> TeamRows(<<>>),
       leave_curation_team |-> TeamRows(<<>>),
       remove_curator |-> TeamRows(<<target>>),
       transfer_curation_team |-> TeamRows(<< <<102, "new_owner", "raw">> >>),
       delete_curation_team |-> TeamRows(<<>>),
       set_curation_preference |->
         << <<100, "community", "raw">>, <<101, "mode", "raw">>, <<102, "pinned_team_id", "raw">> >>,
       set_curation_post_hidden |-> TeamRows(<<target, <<103, "hidden", "flag">> >>),
       set_curation_user_hidden |-> TeamRows(<<target, <<103, "hidden", "flag">> >>),
       set_curation_thread_locked |->
         TeamRows(<< <<102, "root_hash", "raw">>, <<103, "locked", "flag">> >>),
       set_curation_subscriber_only |-> TeamRows(<< <<102, "enabled", "flag">> >>),
       set_curation_tag |-> TeamRows(<< <<102, "tag", "raw">> >>),
       set_curation_post_tag |->
         TeamRows(<<target, <<103, "tag", "raw">>, <<104, "clear", "flag">> >>),
       claim_creator_rewards |-> << <<100, "epoch_ids", "each">> >>]

-----------------------------------------------------------------------------
(* performTransaction: the payload of the preimage the worker hashes, read *)
(* from final_transaction.  set_biography has none.                        *)

One(field) == << <<100, field, "raw">> >>
TextRows == << <<100, "target", "raw">>, <<101, "community", "raw">>, <<102, "title", "raw">>,
               <<103, "content", "raw">>, <<104, "tag", "raw">> >>
PostRows == TextRows \o << <<105, "media", "each">>, <<106, "one", "raw">> >>

PowContent ==
  [create_vote |-> << <<100, "target", "raw">>, <<101, "direction", "u32">> >>,
   create_post |-> PostRows,
   create_comment |-> PostRows,
   set_username |-> << <<100, "signer", "raw">>, <<101, "username", "raw">> >>,
   follow_user |-> << <<100, "signer", "lower">>, <<101, "user", "lower">> >>,
   unfollow_user |-> << <<100, "signer", "lower">>, <<101, "user", "lower">> >>]
\* Mutant: the join preimage without the lens, as it once was.
PowMembershipWithoutLens ==
  [join_community |-> << <<100, "community", "lower">> >>,
   leave_community |-> << <<100, "community", "lower">> >>]
PowMembership ==
  [join_community |->
     << <<100, "community", "lower">>, <<101, "mode", "raw">>, <<102, "pinned_team_id", "raw">> >>,
   leave_community |-> << <<100, "community", "lower">> >>]
PowTargets ==
  LET community == << <<100, "target", "raw">>, <<101, "community", "lower">> >>
  IN  [block_post |-> One("target"), unblock_post |-> One("target"),
       block_user |-> One("target"), unblock_user |-> One("target"),
       block_community |-> community, unblock_community |-> community,
       delete_post |-> One("target"), delete_user |-> One("target"),
       send_tokens |->
         << <<100, "signer", "raw">>, <<101, "target", "raw">>, <<102, "amount", "raw">> >>]
PowTexts ==
  [report |-> << <<100, "target", "raw">>, <<101, "reason", "raw">> >>,
   edit_post |-> TextRows \o << <<105, "override", "lower">>, <<106, "media", "each">> >>]
PowRows == PowContent @@ PowMembership @@ PowTargets @@ PowTexts @@ CurationTxSpecs

-----------------------------------------------------------------------------
(* handleTransactionResult: the arguments each branch computes from        *)
(* final_transaction, and the canonicalX each branch signs with.  The      *)
(* relayed body is those arguments, but for the exceptions of Relay.       *)

Same(fields) == [n \in fields |-> <<n, "raw">>]

SignProfile ==
  [set_username |-> [target |-> <<"signer", "raw">>, username |-> <<"username", "raw">>],
   set_biography |-> [target |-> <<"signer", "raw">>, biography |-> <<"biography", "raw">>]]
SignRelations ==
  LET follow == [target |-> <<"signer", "lower">>, user |-> <<"user", "lower">>]
  IN  [follow_user |-> follow, unfollow_user |-> follow,
       join_community |->
         [community |-> <<"community", "lower">>] @@ Same({"mode", "pinned_team_id"}),
       leave_community |-> [community |-> <<"community", "lower">>]]
SignBlocks ==
  LET community == [target |-> <<"target", "lower">>, community |-> <<"community", "lower">>]
  IN  [block_post |-> Same({"target"}), unblock_post |-> Same({"target"}),
       block_user |-> Same({"target"}), unblock_user |-> Same({"target"}),
       block_community |-> community, unblock_community |-> community]
SignDeletes ==
  [delete_post |-> Same({"target"}),
   delete_user |-> [target |-> <<"target", "lower">>],
   send_tokens |->
     [sender |-> <<"signer", "lower">>, target |-> <<"target", "lower">>, amount |-> <<"amount", "raw">>]]
SignTexts ==
  LET post == Same({"target", "community", "title", "content", "tag", "media"})
  IN  [report |-> Same({"target", "reason"}),
       create_post |-> post @@ [protocol_version |-> <<"one", "raw">>],
       create_comment |-> post @@ [protocol_version |-> <<"one", "raw">>],
       edit_post |-> post @@ [override |-> <<"override", "lower">>]]
SignVote == [create_vote |-> Same({"target", "direction"})]
SignFees ==
  [subscribe |-> [target |-> <<"target", "clean">>] @@ Same({"level", "period_count"}),
   set_auto_renewal |-> Same({"auto_renew"}),
   award |-> Same({"target", "award_type"})]
SignArgs(a, f) ==
  LET rows == SignProfile @@ SignRelations @@ SignBlocks @@ SignDeletes @@ SignTexts
                @@ SignVote @@ SignFees
  IN  Build(IF a \in DOMAIN rows THEN rows[a] ELSE Same(DOMAIN Enqueue[a]), f)

CanonicalPosts ==
  LET post == TextRows \o << <<105, "media", "each">>, <<106, "protocol_version", "raw">> >>
  IN  [create_post |-> post, create_comment |-> post,
       edit_post |-> TextRows \o << <<105, "override", "raw">>, <<106, "media", "each">> >>]
CanonicalProfiles ==
  [set_username |-> << <<100, "target", "raw">>, <<101, "username", "raw">> >>,
   set_biography |-> << <<100, "target", "raw">>, <<101, "biography", "raw">> >>]
CanonicalFollows ==
  LET row == << <<100, "target", "raw">>, <<101, "user", "raw">> >>
  IN  [follow_user |-> row, unfollow_user |-> row]
CanonicalMemberships ==
  [join_community |->
     << <<100, "community", "raw">>, <<101, "mode", "raw">>, <<102, "pinned_team_id", "raw">> >>,
   leave_community |-> One("community")]
CanonicalUnblocks == [unblock_post |-> One("target"), unblock_user |-> One("target")]
CanonicalBlocks == [block_post |-> One("target"), block_user |-> One("target")]
CanonicalCommunityBlocks ==
  LET row == << <<100, "target", "raw">>, <<101, "community", "raw">> >>
  IN  [block_community |-> row, unblock_community |-> row]
CanonicalDeletes == [delete_post |-> One("target"), delete_user |-> One("target")]
\* Mutant: the amount written as the 32-bit numbers are.
CanonicalSendTokens32 ==
  [send_tokens |-> << <<100, "sender", "raw">>, <<101, "target", "raw">>, <<102, "amount", "u32">> >>]
CanonicalSendTokens ==
  [send_tokens |-> << <<100, "sender", "raw">>, <<101, "target", "raw">>, <<102, "amount", "raw">> >>]
CanonicalReport == [report |-> << <<100, "target", "raw">>, <<101, "reason", "raw">> >>]
CanonicalVote == [create_vote |-> << <<100, "target", "raw">>, <<101, "direction", "u32">> >>]
CanonicalSubscribe ==
  [subscribe |-> << <<100, "level", "raw">>, <<101, "target", "unless empty">>, <<102, "period_count", "raw">> >>]
CanonicalAutoRenewal == [set_auto_renewal |-> << <<100, "auto_renew", "flag">> >>]
CanonicalAward == [award |-> << <<100, "target", "raw">>, <<101, "award_type", "raw">> >>]
CanonicalRows ==
  CanonicalPosts @@ CanonicalProfiles @@ CanonicalFollows @@ CanonicalMemberships
    @@ CanonicalUnblocks @@ CanonicalBlocks @@ CanonicalCommunityBlocks @@ CanonicalDeletes
    @@ CanonicalSendTokens @@ CanonicalReport @@ CanonicalVote @@ CanonicalSubscribe
    @@ CanonicalAutoRenewal @@ CanonicalAward @@ CurationTxSpecs

\* The body posted to the backend.  Profile and transfer bodies leave the
\* signer out; post and edit bodies spread final_transaction.
Withheld(a) ==
  CASE a \in {"set_username", "set_biography"} -> {"target"}
    [] a = "send_tokens" -> {"sender"}
    [] OTHER -> {}
Relay(a, f) ==
  LET args == SignArgs(a, f)
  IN  IF a = "edit_post" THEN f @@ args
      ELSE [n \in DOMAIN args \ Withheld(a) |-> args[n]]

-----------------------------------------------------------------------------
(* The backend: the message each route fills in from the body.             *)

ServerProfiles ==
  [set_username |-> [target |-> <<"signer", "raw">>, username |-> <<"username", "trim">>],
   set_biography |-> [target |-> <<"signer", "raw">>, biography |-> <<"biography", "raw">>]]
CleanTarget == [target |-> <<"target", "clean">>]
ServerBlocks ==
  [block_post |-> CleanTarget, block_user |-> CleanTarget,
   unblock_post |-> CleanTarget, unblock_user |-> CleanTarget]
ServerFollows ==
  LET row == CleanTarget @@ [user |-> <<"user", "clean">>]
  IN  [follow_user |-> row, unfollow_user |-> row]
ServerDeletes ==
  [delete_post |-> [target |-> <<"target", "trim">>], delete_user |-> CleanTarget]
ServerReport == [report |-> CleanTarget @@ [reason |-> <<"reason", "printable">>]]
ServerEdit ==
  [edit_post |->
     [n \in {"target", "community", "title", "content", "tag"} |-> <<n, "trim">>]
       @@ [override |-> <<"override", "clean">>, media |-> <<"media", "raw">>]]
ServerPost ==
  LET row == Same({"target", "title", "content", "media", "protocol_version"})
               @@ [community |-> <<"community", "trim">>, tag |-> <<"tag", "trim">>]
  IN  [create_post |-> row, create_comment |-> row]
ServerVote == [create_vote |-> Same({"target", "direction"})]
ServerTransfers ==
  [send_tokens |-> CleanTarget @@ [sender |-> <<"signer", "raw">>, amount |-> <<"amount", "raw">>],
   subscribe |-> CleanTarget @@ Same({"level", "period_count"}),
   set_auto_renewal |-> Same({"auto_renew"}),
   award |-> CleanTarget @@ [award_type |-> <<"award_type", "trim">>]]
ServerMemberships ==
  LET community == [community |-> <<"community", "clean">>]
  IN  [join_community |-> community @@ Same({"mode", "pinned_team_id"}),
       leave_community |-> community,
       block_community |-> CleanTarget @@ community,
       unblock_community |-> CleanTarget @@ community]
ServerTeams(a) ==
  [n \in DOMAIN Enqueue[a] |->
     <<n, CASE n \in {"community", "target", "new_owner", "root_hash"} -> "clean"
            [] n = "tag" -> "trim"
            [] OTHER -> "raw">>]

Message(a, body) ==
  LET rows == ServerProfiles @@ ServerBlocks @@ ServerFollows @@ ServerDeletes @@ ServerReport
                @@ ServerEdit @@ ServerPost @@ ServerVote @@ ServerTransfers @@ ServerMemberships
  IN  Build(IF a \in DOMAIN rows THEN rows[a] ELSE ServerTeams(a), body)

-----------------------------------------------------------------------------
(* The chain: the fields a message type writes, in order, tagged from 100. *)
(* MsgReport never reaches it: the backend checks a report by the same     *)
(* scheme (canon_base_report).                                             *)

ChainBasics ==
  LET post == <<"target", "community", "title", "content", "tag">>
  IN  [create_post |-> post \o <<"media", "protocol_version">>,
       create_comment |-> post \o <<"media", "protocol_version">>,
       create_vote |-> <<"target", "direction">>,
       set_username |-> <<"target", "username">>, set_biography |-> <<"target", "biography">>,
       delete_post |-> <<"target">>, delete_user |-> <<"target">>,
       send_tokens |-> <<"sender", "target", "amount">>, award |-> <<"target", "award_type">>,
       follow_user |-> <<"target", "user">>, unfollow_user |-> <<"target", "user">>,
       block_post |-> <<"target">>, unblock_post |-> <<"target">>,
       block_user |-> <<"target">>, unblock_user |-> <<"target">>,
       edit_post |-> post \o <<"override", "media">>,
       subscribe |-> <<"level", "target", "period_count">>,
       set_auto_renewal |-> <<"auto_renew">>, report |-> <<"target", "reason">>]
ChainCommunities ==
  LET team == <<"community", "team_id">>
  IN  [join_community |-> <<"community", "mode", "pinned_team_id">>,
       leave_community |-> <<"community">>,
       block_community |-> <<"target", "community">>,
       unblock_community |-> <<"target", "community">>,
       create_curation_team |-> <<"community", "name", "description">>,
       set_curation_team_profile |-> team \o <<"name", "description">>,
       invite_curator |-> team \o <<"target">>, revoke_curator_invite |-> team \o <<"target">>,
       accept_curator_invite |-> team, decline_curator_invite |-> team,
       leave_curation_team |-> team, remove_curator |-> team \o <<"target">>,
       transfer_curation_team |-> team \o <<"new_owner">>, delete_curation_team |-> team,
       set_curation_preference |-> <<"community", "mode", "pinned_team_id">>,
       set_curation_post_hidden |-> team \o <<"target", "hidden">>,
       set_curation_user_hidden |-> team \o <<"target", "hidden">>,
       set_curation_thread_locked |-> team \o <<"root_hash", "locked">>,
       set_curation_subscriber_only |-> team \o <<"enabled">>,
       set_curation_tag |-> team \o <<"tag">>,
       set_curation_post_tag |-> team \o <<"target", "tag", "clear">>,
       claim_creator_rewards |-> <<"epoch_ids">>]

ChainHow(a, name) ==
  CASE name \in {"hidden", "locked", "enabled", "clear", "auto_renew"} -> "flag"
    [] name \in {"media", "epoch_ids"} -> "each"
    [] name = "direction" -> "u32"
    [] a = "subscribe" /\ name = "target" -> "unless empty"
    [] OTHER -> "raw"
ChainPayload(a, msg) ==
  LET names == (ChainBasics @@ ChainCommunities)[a]
  IN  Encode([i \in DOMAIN names |-> <<99 + i, names[i], ChainHow(a, names[i])>>], msg)

-----------------------------------------------------------------------------
(* Requests.  At most one text is written oddly, the other arguments are   *)
(* plain; the arguments that are no text take the k-th of their options.   *)

Options ==
  LET flag == <<TRUE, FALSE, TRUE>>
  IN  [hidden |-> flag, locked |-> flag, enabled |-> flag, clear |-> <<FALSE, TRUE, FALSE>>,
       auto_renew |-> flag, team_id |-> <<1, 1, 1>>, pinned_team_id |-> <<2, 2, 2>>,
       mode |-> <<0, 1, 2>>, direction |-> <<-1, 0, 1>>,
       amount |-> <<1, 2^W - 1, 2^W + 1>>,
       epoch_ids |-> << <<3>>, <<2, 1, 2>>, <<1, 3>> >>,
       media |-> << <<>>, <<"m1">>, <<"m2", "m1">> >>]

Args(a) == {Enqueue[a][n][1] : n \in DOMAIN Enqueue[a]} \ {"signer", "one"}

\* Ids of posts on the screen and the slug a form has checked are clean.
Typed(a) ==
  {n \in Args(a) \ DOMAIN Options : n # "parentId" /\ ~(a = "create_post" /\ n = "community")}

Requests(a) ==
  {[n \in Args(a) |->
      IF n \in DOMAIN Options THEN Options[n][odd[3]]
      ELSE Text(n, IF n = odd[1] THEN odd[2] ELSE "plain")] :
     odd \in (Typed(a) \X Styles \X (1..3)) \cup {<<"none", "plain", k>> : k \in 1..3}}

-----------------------------------------------------------------------------
(* The transaction in flight.                                              *)

NoPowActions == {"subscribe", "set_auto_renewal", "award"}
NoHash == <<"none", 0>>
NoEnv == [hash |-> NoHash, diff |-> 0, base |-> 0, time |-> 0]

\* No transaction, or one that is over.
Blank(stage) ==
  [stage |-> stage, action |-> "", req |-> <<>>, final |-> <<>>, env |-> NoEnv, levelNow |-> 0,
   attempt |-> 0, nonce |-> 0, preimage |-> <<>>, mined |-> 0, proof |-> 0, signed |-> <<>>,
   body |-> <<>>, at |-> 0, changes |-> 0]

Init ==
  /\ chain \in [now : {0}, height : {0}, need : 0..1, paid : BOOLEAN]
  /\ level = IF chain.paid THEN 1 ELSE 0
  /\ tx = Blank("idle")

Request(a, req) ==
  /\ tx.stage = "idle"
  /\ tx' = IF Refuses(a, req) THEN Blank("refused")
           ELSE [tx EXCEPT !.stage = "queued", !.action = a, !.req = req]
  /\ UNCHANGED <<chain, level>>

\* The hash, difficulty and base bits get_parameters answers with now.
Fetched == [hash |-> <<"block", chain.height>>, diff |-> chain.need, base |-> 1, time |-> chain.now]

Final == Build(FinalRow(tx.action), Entry(tx.action, tx.req))

\* The head of the loop: a free account fetches the parameters, anyone else
\* gets none; a fee action carries no hash, a subscriber's the clock.
Dequeue ==
  /\ tx.stage = "queued"
  /\ IF level = 0 /\ tx.action \notin NoPowActions
     THEN tx' = [tx EXCEPT !.stage = "fetching", !.levelNow = level]
     ELSE tx' = [tx EXCEPT !.stage = "built", !.levelNow = level, !.final = Final,
                           !.env = [hash |-> IF tx.action \in NoPowActions THEN NoHash
                                             ELSE <<"clock", chain.now>>,
                                    diff |-> 0, base |-> 0, time |-> chain.now]]
  /\ UNCHANGED <<chain, level>>

ParamsArrive ==
  /\ tx.stage = "fetching"
  /\ tx' = [tx EXCEPT !.stage = "built", !.final = Final, !.env = Fetched]
  /\ UNCHANGED <<chain, level>>

ParamsFail ==
  /\ tx.stage = "fetching"
  /\ tx' = Blank("failed")
  /\ UNCHANGED <<chain, level>>

\* generateEnvelopeNonce: the clock in finer units than anything else here.
Nonce == chain.now + 1

EnvelopeOf(env, nonce) == <<env.hash, env.diff, env.time, nonce>>

CanSkipPow == tx.action # "report" /\ (level >= 1 \/ tx.action \in NoPowActions)

\* Mutant: missing parameters are taken as zero.
PowThrowsIfUnknown == tx.action \notin DOMAIN PowRows

\* requirePowBaseBits and the branches of performTransaction throw.
PowThrows == tx.env.base = 0 \/ tx.action \notin DOMAIN PowRows

\* performTransaction, up to the await: a fresh nonce, then either no work
\* at all or the preimage handed to the worker.
Perform ==
  /\ tx.stage = "built"
  /\ LET t == [tx EXCEPT !.nonce = Nonce, !.at = chain.now, !.preimage = <<>>, !.mined = 0, !.proof = 0]
     IN  tx' = IF CanSkipPow THEN [t EXCEPT !.stage = "signing", !.env.diff = 0]
               ELSE IF PowThrows THEN Blank("failed")
               ELSE [t EXCEPT !.stage = "mining",
                              !.preimage = EnvelopeOf(tx.env, Nonce)
                                             \o Encode(PowRows[tx.action], tx.final)]
  /\ UNCHANGED <<chain, level>>

\* The worker counts up from a random start and hashes its count cut to W
\* bits; the page cuts the count it is told the same way.
PowFound(count) ==
  /\ tx.stage = "mining"
  /\ tx' = [tx EXCEPT !.stage = "signing", !.mined = count % 2^W, !.proof = count % 2^W]
  /\ UNCHANGED <<chain, level>>

PowGivesUp ==
  /\ tx.stage = "mining"
  /\ tx' = Blank("failed")
  /\ UNCHANGED <<chain, level>>

\* The fee branches sign and relay no work, whatever the envelope says.
Free(a, n) == IF a \in {"subscribe", "set_auto_renewal"} THEN 0 ELSE n

Sign ==
  /\ tx.stage = "signing"
  /\ LET a == tx.action
     IN  tx' = [tx EXCEPT
           !.stage = "posted",
           !.signed = EnvelopeOf([tx.env EXCEPT !.diff = Free(a, @)], tx.nonce)
                        \o <<Free(a, tx.proof)>> \o Encode(CanonicalRows[a], SignArgs(a, tx.final)),
           !.body = [fields |-> Relay(a, tx.final), env |-> tx.env, nonce |-> tx.nonce, pow |-> tx.proof]]
  /\ UNCHANGED <<chain, level>>

\* What the verifier rebuilds from the body.  The fee routes put no work in.
Paid(a, n) == IF a \in NoPowActions THEN 0 ELSE n
VerifiedEnvelope == EnvelopeOf([tx.body.env EXCEPT !.diff = Paid(tx.action, @)], tx.body.nonce)
VerifiedPayload == ChainPayload(tx.action, Message(tx.action, tx.body.fields))
VerifiedPreimage == VerifiedEnvelope \o VerifiedPayload
VerifiedSigned == VerifiedEnvelope \o <<Paid(tx.action, tx.body.pow)>> \o VerifiedPayload

\* Whether this message must carry work: subscribers' and fee messages need
\* not, reports always do.
NeedsWork == tx.action = "report" \/ ~(chain.paid \/ tx.action \in NoPowActions)
Recent(hash) == hash[1] = "block" /\ chain.height - hash[2] <= HashWindow
Matches == tx.preimage = VerifiedPreimage /\ tx.mined = tx.body.pow

\* Work for less than the required difficulty may still meet it by luck.
Accept ==
  /\ tx.stage = "posted"
  /\ NeedsWork => Matches /\ Recent(tx.body.env.hash)
  /\ tx.signed = VerifiedSigned
  /\ tx' = Blank("accepted")
  /\ UNCHANGED <<chain, level>>

WorkFails ==
  NeedsWork /\ (~Matches \/ ~Recent(tx.body.env.hash) \/ tx.body.env.diff < chain.need)

\* "insufficient pow", "precheck" and "invalid last_block_hash" are retried.
RefuseWork ==
  /\ tx.stage = "posted"
  /\ WorkFails
  /\ tx' = IF tx.attempt < MAX_POW_RETRIES
           THEN [tx EXCEPT !.stage = "retrying", !.attempt = @ + 1]
           ELSE Blank("failed")
  /\ UNCHANGED <<chain, level>>

\* Any other refusal: a bad signature, a validation, a fee that is not there.
RefuseOtherwise ==
  /\ tx.stage = "posted"
  /\ tx' = Blank("failed")
  /\ UNCHANGED <<chain, level>>

\* Mutant: a retry refreshes the hash and not the timestamp.
RetryReadyKeepsTime ==
  /\ tx.stage = "retrying"
  /\ chain.now > tx.at
  /\ tx' = [tx EXCEPT !.stage = "built",
                      !.env = IF tx.levelNow = 0 THEN [Fetched EXCEPT !.time = tx.env.time] ELSE @]
  /\ UNCHANGED <<chain, level>>

\* A retry waits, and starts over from the parameters of a free account.
RetryReady ==
  /\ tx.stage = "retrying"
  /\ chain.now > tx.at
  /\ tx' = [tx EXCEPT !.stage = "built",
                      !.env = IF tx.levelNow = 0 THEN Fetched
                              ELSE [@ EXCEPT !.diff = 0, !.time = chain.now]]
  /\ UNCHANGED <<chain, level>>

\* A failed fetch uses the attempt up.
RetryFetchFails ==
  /\ tx.stage = "retrying"
  /\ chain.now > tx.at
  /\ tx.levelNow = 0
  /\ tx' = IF tx.attempt < MAX_POW_RETRIES THEN [tx EXCEPT !.attempt = @ + 1, !.at = chain.now]
           ELSE Blank("failed")
  /\ UNCHANGED <<chain, level>>

-----------------------------------------------------------------------------
(* Meanwhile: time, blocks and difficulty; the subscription and the        *)
(* client's copy of it.                                                    *)

InFlight == tx.stage \notin {"idle", "refused", "accepted", "failed"}

Tick(newBlock, need) ==
  /\ InFlight
  /\ chain.now < MaxTime
  /\ need # chain.need => newBlock = 1
  /\ chain' = [chain EXCEPT !.now = @ + 1, !.height = @ + newBlock, !.need = need]
  /\ UNCHANGED <<level, tx>>

SubscriptionChanges ==
  /\ InFlight
  /\ tx.changes < MaxChanges
  /\ chain' = [chain EXCEPT !.paid = ~@]
  /\ tx' = [tx EXCEPT !.changes = @ + 1]
  /\ UNCHANGED level

CacheUserStatus ==
  /\ InFlight
  /\ level # IF chain.paid THEN 1 ELSE 0
  /\ level' = IF chain.paid THEN 1 ELSE 0
  /\ UNCHANGED <<chain, tx>>

Next ==
  \/ \E a \in Actions : \E req \in Requests(a) : Request(a, req)
  \/ Dequeue \/ ParamsArrive \/ ParamsFail \/ Perform
  \/ \E count \in {1, 2^W} : PowFound(count)
  \/ PowGivesUp \/ Sign
  \/ Accept \/ RefuseWork \/ RefuseOtherwise \/ RetryReady \/ RetryFetchFails
  \/ \E newBlock \in 0..1, need \in 0..1 : Tick(newBlock, need)
  \/ SubscriptionChanges \/ CacheUserStatus

Spec == Init /\ [][Next]_vars

-----------------------------------------------------------------------------
(* Properties.                                                             *)

\* The one text the backend rewrites before it verifies: control characters
\* inside the reason of a report.
RewrittenByServer == tx.action = "report" /\ tx.req.reason.ctl

\* The bytes handleTransactionResult signs for an action are the bytes the
\* chain rebuilds from the message the backend made of the relayed body,
\* whatever was typed and on whichever attempt: no transaction is refused
\* for its signature.  (A report whose reason has a control character is.)
SignedIsVerified ==
  tx.stage = "posted" => \/ tx.signed = VerifiedSigned
                         \/ RewrittenByServer

\* When work was done, it was done over the preimage the chain hashes, and
\* the proof relayed is the number the worker hashed, also when its count
\* ran past the width: the second of the two hand-written encodings agrees
\* with the chain as well.
WorkIsVerified ==
  tx.stage = "posted" /\ tx.preimage # <<>> => Matches \/ RewrittenByServer

\* The worker is never set on a hash no block has or on parameters that were
\* never fetched, also when the tier changes between the dequeue, which
\* decides whether to fetch, and performTransaction, which decides whether
\* to mine.
MinesOnFetchedParams ==
  tx.stage = "mining" => tx.env.hash[1] = "block" /\ tx.env.base > 0

\* Texts that must arrive letter for letter.
Verbatim == {"username", "biography", "name", "description", "title", "content", "reason"}

\* What a lens join asked for that final_transaction drops.
DroppedByJoin(n) == tx.action = "join_community" /\ n \in {"mode", "pinned_team_id"}

Carries(n, asked, msg) ==
  CASE n = "epoch_ids" -> ToSet(msg.epoch_ids) = ToSet(asked)
    [] n = "pinned_team_id" -> msg.pinned_team_id = IF msg.mode = 1 THEN asked ELSE 0
    [] n = "tag" /\ "clear" \in DOMAIN msg /\ msg.clear -> msg.tag = Empty
    [] n \in DOMAIN Options -> msg[n] = asked
    [] OTHER -> LET got == msg[IF n = "parentId" THEN "target" ELSE n]
                IN  /\ got.word = asked.word
                    /\ n \in Verbatim => got.up = asked.up /\ got.ctl = asked.ctl

\* The message that reaches the chain says what the view asked for, argument
\* by argument, through the five tables between them.  (The lens of a join
\* and the control characters of a report's reason are lost.)
SaysWhatWasAsked ==
  tx.stage = "posted" =>
    \A n \in DOMAIN tx.req :
      \/ Carries(n, tx.req[n], Message(tx.action, tx.body.fields))
      \/ DroppedByJoin(n)
      \/ RewrittenByServer

\* Every attempt that is posted carries a nonce and a timestamp later than
\* any attempt before it, so a retry is never taken for a replay.
AttemptsAreFresh ==
  [][tx.stage = "signing" /\ tx'.stage = "posted" /\ tx.body # <<>> =>
       tx'.body.nonce > tx.body.nonce /\ tx'.body.env.time > tx.body.env.time]_vars

=============================================================================
