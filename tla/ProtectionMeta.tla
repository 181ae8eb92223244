---------------------------- MODULE ProtectionMeta ----------------------------
(***************************************************************************)
(* What a session attaches to an encrypted GStreamer buffer for Rialto's   *)
(* server.  opencdm_gstreamer_session_decrypt[_ex] builds the protection   *)
(* metadata from its arguments, opencdm_gstreamer_session_decrypt_buffer   *)
(* from the metadata that an upstream element put on the buffer.  A        *)
(* structure is a record with Absent in the fields it does not have; a     *)
(* GstBuffer in a field is represented by what is read of it: a key id, or *)
(* the size of an IV.  Fields that are only passed on (subsamples and the  *)
(* like) are left out.  Buffers do not influence each other: a behaviour   *)
(* follows one buffer, decrypted once, through any calls on the session.   *)
(***************************************************************************)
EXTENDS Naturals

CONSTANTS
  KeyIds,      \* non-empty key ids
  EmptyKey,    \* a key id buffer of size 0
  NoKey,       \* no key id buffer; no PlayReady key selected
  IvSizes,     \* sizes of initialization vectors
  SessionIds,  \* key session ids
  Invalid,     \* kInvalidSessionId
  NoMeta,      \* no metadata
  Absent,      \* no such field
  Mistyped     \* a value of another type than the field is to have

ASSUME MetaAssumption ==
  /\ {EmptyKey, NoKey} \cap KeyIds = {} /\ EmptyKey # NoKey
  /\ Invalid \notin SessionIds
  /\ IvSizes \subseteq Nat
  /\ {Absent, Mistyped} \cap (BOOLEAN \cup Nat \cup {"cbcs"}) = {}

VARIABLES
  mksId,     \* m_rialtoSessionId
  selected,  \* m_playreadyKeyId
  upstream,  \* the GstProtectionMeta of the buffer, or NoMeta
  attached   \* the buffer's GstRialtoProtectionMetadata, or NoMeta

metaVars == <<mksId, selected, upstream, attached>>

Structures(flag, id, kid, iv, size, number, mode) ==
  [encrypted : flag, mks_id : id, kid : kid, iv : iv, iv_size : size,
   encryption_scheme : number, cipher_mode : mode,
   crypt_byte_block : number, skip_byte_block : number]

(* What elements upstream may put on a buffer.                                *)
UpstreamStructures ==
  Structures({Absent, Mistyped, TRUE, FALSE}, {Absent}, {Absent, EmptyKey} \cup KeyIds,
             {Absent} \cup IvSizes, {Absent, Mistyped} \cup IvSizes,
             {Absent, Mistyped, 0, 1}, {Absent, "cbcs"})

HasTyped(info, field) == info[field] \notin {Absent, Mistyped}

Default(info, field, value) ==
  IF HasTyped(info, field) THEN info ELSE [info EXCEPT ![field] = value]

Init ==
  /\ mksId = Invalid /\ selected = NoKey
  /\ upstream \in UpstreamStructures \cup {NoMeta} /\ attached = NoMeta

-------------------------------------------------------------------------------
(* A mistake for a run that must fail: the selected key is not looked at.     *)
KeyAsGiven(keyId) == keyId

(* An empty key id is replaced by the selected PlayReady key.                 *)
KeyToApply(keyId) ==
  IF keyId = EmptyKey /\ selected # NoKey THEN selected ELSE keyId

(* Mistakes for runs that must fail: the pattern is copied only whole; the    *)
(* mode is not copied.                                                        *)
CopyWholePattern(info, meta) ==
  IF meta # NoMeta /\ HasTyped(meta, "crypt_byte_block") /\ HasTyped(meta, "skip_byte_block")
    THEN [info EXCEPT !.cipher_mode = meta.cipher_mode,
                      !.crypt_byte_block = meta.crypt_byte_block,
                      !.skip_byte_block = meta.skip_byte_block]
    ELSE info

(* The cipher mode and what there is of the pattern; no mode, no pattern.     *)
CopyPattern(info, meta) ==
  LET numberOf(field) == IF HasTyped(meta, field) THEN meta[field] ELSE Absent IN
  IF meta # NoMeta /\ HasTyped(meta, "cipher_mode")
    THEN [info EXCEPT !.cipher_mode = meta.cipher_mode,
                      !.crypt_byte_block = numberOf("crypt_byte_block"),
                      !.skip_byte_block = numberOf("skip_byte_block")]
    ELSE info

(* addProtectionMeta(buffer, subSample, ..., IV, keyID, initWithLast15)       *)
FromArguments(keyId, iv, meta) ==
  CopyPattern([encrypted |-> TRUE, mks_id |-> mksId, kid |-> KeyToApply(keyId),
               iv |-> iv, iv_size |-> iv, encryption_scheme |-> 0,
               cipher_mode |-> Absent, crypt_byte_block |-> Absent,
               skip_byte_block |-> Absent],
              meta)

(* A mistake for a run that must fail: the IV's size is taken as given.       *)
FromUpstreamAsGiven(meta) ==
  [Default(Default(meta, "encrypted", TRUE), "encryption_scheme", 0)
     EXCEPT !.mks_id = mksId,
            !.kid = IF selected # NoKey THEN selected ELSE meta.kid]

(* addProtectionMeta(buffer)                                                  *)
FromUpstream(meta) ==
  LET info == Default(Default(meta, "encrypted", TRUE), "encryption_scheme", 0)
      sized == IF HasTyped(meta, "iv") THEN Default(info, "iv_size", meta.iv) ELSE info
  IN  [sized EXCEPT !.mks_id = mksId,
                    !.kid = IF selected # NoKey THEN selected ELSE meta.kid]

-------------------------------------------------------------------------------
(* initialize() gives the session its id, once.                               *)
Initialize(id) ==
  /\ mksId = Invalid /\ mksId' = id
  /\ UNCHANGED <<selected, upstream, attached>>

(* opencdm_session_select_key_id, which takes no empty key.                   *)
SelectKeyId(keyId) ==
  /\ selected' = keyId
  /\ UNCHANGED <<mksId, upstream, attached>>

(* rialto_mse_add_protection_metadata                                         *)
Attach(info) == attached = NoMeta /\ attached' = info

DecryptEx(keyId, iv) ==
  /\ Attach(FromArguments(keyId, iv, upstream))
  /\ UNCHANGED <<mksId, selected, upstream>>

(* Without metadata from upstream, decrypt_buffer fails.                      *)
DecryptBuffer ==
  /\ upstream # NoMeta
  /\ Attach(FromUpstream(upstream))
  /\ UNCHANGED <<mksId, selected, upstream>>

Next ==
  \/ \E id \in SessionIds : Initialize(id)
  \/ \E keyId \in KeyIds : SelectKeyId(keyId)
  \/ \E keyId \in KeyIds \cup {EmptyKey, NoKey}, iv \in IvSizes : DecryptEx(keyId, iv)
  \/ DecryptBuffer

Spec == Init /\ [][Next]_metaVars

-------------------------------------------------------------------------------
(* The server gets what it requires, whichever way the buffer was decrypted   *)
(* and whatever upstream put on it: a flag, a scheme, the size of the IV.     *)
ServerCanDecrypt ==
  attached # NoMeta =>
    /\ HasTyped(attached, "encrypted") /\ HasTyped(attached, "encryption_scheme")
    /\ (HasTyped(attached, "iv") => HasTyped(attached, "iv_size"))

(* The encryption pattern of upstream survives both ways.                     *)
PatternSurvives ==
  attached # NoMeta /\ upstream # NoMeta /\ HasTyped(upstream, "cipher_mode") =>
      \A field \in {"cipher_mode", "crypt_byte_block", "skip_byte_block"} :
        HasTyped(upstream, field) => attached[field] = upstream[field]

(* Once a PlayReady key is selected, no sample goes to the server with an     *)
(* empty key id, whichever way it is decrypted.                               *)
NoEmptyKeyOnceSelected ==
  [][selected # NoKey /\ attached = NoMeta /\ attached' # NoMeta
       => attached'.kid # EmptyKey]_metaVars

(* The two ways to decrypt a sample attach the same, when the arguments of    *)
(* the one are what upstream tells the other and upstream does not contradict *)
(* them.  They differ for a key id that is not empty: there decrypt_buffer    *)
(* puts the selected key in its place and decrypt does not.                   *)
SaysTheSame(meta) ==
  /\ meta.kid # Absent /\ (selected # NoKey => meta.kid = EmptyKey)
  /\ meta.iv # Absent /\ meta.iv_size \in {Absent, Mistyped, meta.iv}
  /\ meta.encrypted \in {Absent, Mistyped, TRUE}
  /\ meta.encryption_scheme \in {Absent, Mistyped, 0}
  /\ {meta.crypt_byte_block, meta.skip_byte_block} \cap {Mistyped} = {}
  /\ HasTyped(meta, "cipher_mode") \/ {meta.crypt_byte_block, meta.skip_byte_block} = {Absent}

FormsAgree ==
  upstream # NoMeta /\ SaysTheSame(upstream) =>
    FromArguments(upstream.kid, upstream.iv, upstream) = FromUpstream(upstream)
===============================================================================
