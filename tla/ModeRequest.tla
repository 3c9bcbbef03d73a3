----------------------------- MODULE ModeRequest -----------------------------
(***************************************************************************)
(* The fields of a mode request on their way from the HTTP handler, which  *)
(* packs them into one payload (json_post_wifi_mode), to the Wi-Fi         *)
(* service, which takes them into its buffers                              *)
(* (wifi_srv_mode_change_handler).                                         *)
(***************************************************************************)
EXTENDS Codec

CONSTANTS
  Char,         \* characters
  OutSizes      \* of the buffers of mode, ssid and pass

ASSUME CharAssumption == {"|", ":", "m", "s", "p"} \subseteq Char
ASSUME OutSizesAssumption == OutSizes \in [1 .. 3 -> Nat \ {0}]

VARIABLE packed       \* the fields sent and received

NotPacked == [sent |-> <<>>, got |-> <<>>]
FieldKeys == <<<<"m">>, <<"s">>, <<"p">>>>

Fields(sent) == [n \in 1 .. 3 |-> <<FieldKeys[n], sent[n]>>]

\* A request without a mode is turned down; the buffers are empty before.
Send(sent) ==
  /\ packed = NotPacked /\ sent[1] # <<>>
  /\ packed' = [sent |-> sent,
                got  |-> [n \in 1 .. 3 |->
                            DecompressGet(Compress(Fields(sent)), FieldKeys[n], <<>>, OutSizes[n])]]

\* Any three strings.
RequestInit == packed = NotPacked
RequestNext == \E sent \in [1 .. 3 -> Seq(Char)] : Send(sent)
RequestSpec == RequestInit /\ [][RequestNext]_packed

\* Every field of a mode request reaches the service whole, or cut to its
\* buffer: empty ones and ones with a colon too; fields with a "|", and those
\* packed behind one, apart (comp_decomp_data.h:32-124).
FieldsArrive ==
  \A n \in DOMAIN packed.sent :
    (\A k \in 1 .. n : \A c \in DOMAIN packed.sent[k] : packed.sent[k][c] # "|") =>
      packed.got[n] = Cut(packed.sent[n], OutSizes[n])
=============================================================================
