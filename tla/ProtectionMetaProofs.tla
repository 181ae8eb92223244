-------------------------- MODULE ProtectionMetaProofs --------------------------
(***************************************************************************)
(* Theorems about ProtectionMeta: whatever upstream leaves on a buffer,    *)
(* for any key ids and any sizes of initialization vectors.                *)
(***************************************************************************)
EXTENDS ProtectionMeta, TLAPS

(* The shapes that the members of the session and the buffer can have, and    *)
(* that what is attached comes from one of the two functions.                 *)
SessionType ==
  /\ selected \in KeyIds \cup {NoKey}
  /\ upstream \in UpstreamStructures \cup {NoMeta}

CanDecrypt(info) ==
  /\ HasTyped(info, "encrypted") /\ HasTyped(info, "encryption_scheme")
  /\ (HasTyped(info, "iv") => HasTyped(info, "iv_size"))

KeepsPattern(info, meta) ==
  meta # NoMeta /\ HasTyped(meta, "cipher_mode") =>
    \A field \in {"cipher_mode", "crypt_byte_block", "skip_byte_block"} :
      HasTyped(meta, field) => info[field] = meta[field]

Inv == SessionType /\ ServerCanDecrypt /\ PatternSurvives

(* What decrypt[_ex] attaches has what the server requires and keeps the      *)
(* pattern.                                                                   *)
LEMMA ArgumentsSuffice ==
  ASSUME NEW keyId, NEW iv \in IvSizes, SessionType
  PROVE  /\ CanDecrypt(FromArguments(keyId, iv, upstream))
         /\ KeepsPattern(FromArguments(keyId, iv, upstream), upstream)
<1> DEFINE plain == [encrypted |-> TRUE, mks_id |-> mksId, kid |-> KeyToApply(keyId),
                     iv |-> iv, iv_size |-> iv, encryption_scheme |-> 0,
                     cipher_mode |-> Absent, crypt_byte_block |-> Absent,
                     skip_byte_block |-> Absent]
<1>1. FromArguments(keyId, iv, upstream) = CopyPattern(plain, upstream)
  BY DEF FromArguments
<1>2. CanDecrypt(plain)
  BY MetaAssumption DEF CanDecrypt, HasTyped
<1>3. CanDecrypt(CopyPattern(plain, upstream))
  BY <1>2 DEF CanDecrypt, HasTyped, CopyPattern
<1>4. KeepsPattern(CopyPattern(plain, upstream), upstream)
  BY DEF KeepsPattern, HasTyped, CopyPattern
<1> QED
  BY <1>1, <1>3, <1>4

(* What decrypt_buffer attaches does so as well.                              *)
LEMMA UpstreamSuffices ==
  ASSUME NEW meta \in UpstreamStructures
  PROVE  /\ CanDecrypt(FromUpstream(meta))
         /\ KeepsPattern(FromUpstream(meta), meta)
  BY MetaAssumption
  DEF CanDecrypt, KeepsPattern, HasTyped, Default, FromUpstream, UpstreamStructures, Structures

LEMMA InvariantHolds == Spec => []Inv
<1>1. Init => Inv
  BY DEF Init, Inv, SessionType, ServerCanDecrypt, PatternSurvives
<1>2. Inv /\ [Next]_metaVars => Inv'
  <2> SUFFICES ASSUME Inv, [Next]_metaVars PROVE Inv'
    OBVIOUS
  <2>1. ASSUME NEW id \in SessionIds, Initialize(id) PROVE Inv'
    BY <2>1 DEF Initialize, Inv, SessionType, ServerCanDecrypt, PatternSurvives
  <2>2. ASSUME NEW keyId \in KeyIds, SelectKeyId(keyId) PROVE Inv'
    BY <2>2 DEF SelectKeyId, Inv, SessionType, ServerCanDecrypt, PatternSurvives
  <2>3. ASSUME NEW keyId \in KeyIds \cup {EmptyKey, NoKey}, NEW iv \in IvSizes,
               DecryptEx(keyId, iv)
        PROVE  Inv'
    BY <2>3, ArgumentsSuffice
    DEF DecryptEx, Attach, Inv, SessionType, ServerCanDecrypt, PatternSurvives,
        CanDecrypt, KeepsPattern
  <2>4. ASSUME DecryptBuffer PROVE Inv'
    <3>1. upstream \in UpstreamStructures
      BY <2>4 DEF DecryptBuffer, Inv, SessionType
    <3> QED
      BY <2>4, <3>1, UpstreamSuffices
      DEF DecryptBuffer, Attach, Inv, SessionType, ServerCanDecrypt, PatternSurvives,
          CanDecrypt, KeepsPattern
  <2>5. CASE UNCHANGED metaVars
    BY <2>5 DEF metaVars, Inv, SessionType, ServerCanDecrypt, PatternSurvives
  <2> QED
    BY <2>1, <2>2, <2>3, <2>4, <2>5 DEF Next
<1> QED
  BY <1>1, <1>2, PTL DEF Spec

(* The server gets a flag, a scheme and the size of the IV, whatever upstream *)
(* left on the buffer and whichever form of addProtectionMeta was used.       *)
THEOREM AttachedSuffices == Spec => []ServerCanDecrypt
  BY InvariantHolds, PTL DEF Inv

(* Both forms of addProtectionMeta keep the encryption pattern of upstream.   *)
THEOREM PatternIsKept == Spec => []PatternSurvives
  BY InvariantHolds, PTL DEF Inv

(* Neither form lets an empty key id pass once a PlayReady key is selected.   *)
THEOREM NoEmptyKeyPasses == Spec => NoEmptyKeyOnceSelected
<1> DEFINE Filled == selected # NoKey /\ attached = NoMeta /\ attached' # NoMeta
                       => attached'.kid # EmptyKey
<1>1. SessionType /\ [Next]_metaVars => [Filled]_metaVars
  <2> SUFFICES ASSUME SessionType, Next, selected # NoKey,
                      attached = NoMeta, attached' # NoMeta
               PROVE  attached'.kid # EmptyKey
    OBVIOUS
  <2>1. selected # EmptyKey
    BY MetaAssumption DEF SessionType
  <2>2. ASSUME NEW keyId \in KeyIds \cup {EmptyKey, NoKey}, NEW iv \in IvSizes,
               DecryptEx(keyId, iv)
        PROVE  attached'.kid # EmptyKey
    <3>1. KeyToApply(keyId) # EmptyKey
      BY <2>1 DEF KeyToApply
    <3> QED
      BY <2>2, <3>1 DEF DecryptEx, Attach, FromArguments, CopyPattern
  <2>3. ASSUME DecryptBuffer PROVE attached'.kid # EmptyKey
    BY <2>1, <2>3
    DEF DecryptBuffer, Attach, FromUpstream, Default, SessionType, UpstreamStructures, Structures
  <2> QED
    BY <2>2, <2>3 DEF Next, Initialize, SelectKeyId
<1> QED
  BY <1>1, InvariantHolds, PTL DEF Spec, Inv, NoEmptyKeyOnceSelected

(* The two forms of addProtectionMeta attach the same to a buffer whose       *)
(* metadata says what the arguments of the other form say.                    *)
THEOREM TheFormsAgree == Spec => []FormsAgree
<1>1. SessionType => FormsAgree
  <2> SUFFICES ASSUME SessionType, upstream # NoMeta, SaysTheSame(upstream)
               PROVE  FromArguments(upstream.kid, upstream.iv, upstream) = FromUpstream(upstream)
    BY DEF FormsAgree
  <2>1. upstream \in UpstreamStructures
    BY DEF SessionType
  <2>2. KeyToApply(upstream.kid) = IF selected # NoKey THEN selected ELSE upstream.kid
    BY DEF SaysTheSame, KeyToApply
  <2> DEFINE m == upstream
             same ==
               [encrypted |-> TRUE, mks_id |-> mksId, kid |-> KeyToApply(m.kid),
                iv |-> m.iv, iv_size |-> m.iv, encryption_scheme |-> 0,
                cipher_mode |-> m.cipher_mode, crypt_byte_block |-> m.crypt_byte_block,
                skip_byte_block |-> m.skip_byte_block]
             flagged == Default(m, "encrypted", TRUE)
             schemed == Default(flagged, "encryption_scheme", 0)
             sized == IF HasTyped(m, "iv") THEN Default(schemed, "iv_size", m.iv) ELSE schemed
  <2>3. FromArguments(m.kid, m.iv, m) = same
    BY <2>1, MetaAssumption
    DEF FromArguments, CopyPattern, HasTyped, SaysTheSame, UpstreamStructures, Structures
  <2>4. flagged = [m EXCEPT !.encrypted = TRUE]
    BY <2>1, MetaAssumption DEF Default, HasTyped, SaysTheSame, UpstreamStructures, Structures
  <2>5. schemed = [flagged EXCEPT !.encryption_scheme = 0]
    BY <2>1, <2>4, MetaAssumption
    DEF Default, HasTyped, SaysTheSame, UpstreamStructures, Structures
  <2>6. HasTyped(m, "iv")
    BY <2>1, MetaAssumption DEF HasTyped, SaysTheSame, UpstreamStructures, Structures
  <2>7. sized = [schemed EXCEPT !.iv_size = m.iv]
    BY <2>1, <2>4, <2>5, <2>6, MetaAssumption
    DEF Default, HasTyped, SaysTheSame, UpstreamStructures, Structures
  <2>8. FromUpstream(m) = [sized EXCEPT !.mks_id = mksId, !.kid = KeyToApply(m.kid)]
    BY <2>2 DEF FromUpstream
  <2>9. FromUpstream(m) = same
    <3> HIDE DEF flagged, schemed, sized
    <3>1. m = [encrypted |-> m.encrypted, mks_id |-> m.mks_id, kid |-> m.kid, iv |-> m.iv,
               iv_size |-> m.iv_size, encryption_scheme |-> m.encryption_scheme,
               cipher_mode |-> m.cipher_mode, crypt_byte_block |-> m.crypt_byte_block,
               skip_byte_block |-> m.skip_byte_block]
      BY <2>1 DEF UpstreamStructures, Structures
    <3>2. sized = [encrypted |-> TRUE, mks_id |-> m.mks_id, kid |-> m.kid, iv |-> m.iv,
                   iv_size |-> m.iv, encryption_scheme |-> 0,
                   cipher_mode |-> m.cipher_mode, crypt_byte_block |-> m.crypt_byte_block,
                   skip_byte_block |-> m.skip_byte_block]
      BY <2>4, <2>5, <2>7, <3>1
    <3> QED
      BY <2>8, <3>2
  <2> QED
    BY <2>3, <2>9
<1> QED
  BY <1>1, InvariantHolds, PTL DEF Inv
===============================================================================
