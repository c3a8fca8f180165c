---------------------------- MODULE ScriptLabels ----------------------------
(***************************************************************************)
(* What the two explorers write beside an input and on an address page:    *)
(* multisig counts, Lightning spends, inscriptions, the type of an address.*)
(* The desktop (frontend/native/src/screens.rs) and the browser            *)
(* (frontend/web/src/rows.rs) each have their own parser of a script's     *)
(* asm; both port the same patterns.                                       *)
(*                                                                         *)
(* A script is a sequence of tokens.  A token is an opcode, a push of len  *)
(* bytes, a small number, or a word of len characters.  The behaviours of  *)
(* the specification start from the scripts the patterns describe and edit *)
(* them, so that they reach every script one or two tokens away.           *)
(***************************************************************************)
EXTENDS Integers, Sequences, FiniteSets

CONSTANTS
    Nothing,
    Kinds,          \* types of a previous output
    Keys,           \* bound: keys of a multisig script
    Witnesses,      \* bound: the witness stacks considered, as items
    Addresses,      \* bound: the shapes of address strings considered
    MaxEdits        \* bound: tokens edited

VARIABLES input, address, edits

vars == <<input, address, edits>>

Op(name) == [op |-> name, len |-> 0, val |-> 0]
PushNum(n) == [op |-> "PUSHNUM", len |-> 0, val |-> n]
PushBytes(n) == [op |-> "PUSHBYTES", len |-> n, val |-> 0]
Word(n) == [op |-> "word", len |-> n, val |-> 0]       \* n word characters
Key(n) == [op |-> "key", len |-> n, val |-> 0]         \* a word that starts as a public key
Hex(n, v) == [op |-> "hex", len |-> n, val |-> v]      \* a word: v, little-endian
IsWord(t) == t.op \in {"word", "key", "hex"}

------------------------------------------------------------------------------
(* Multisig.                                                               *)

(* pop_script_number at the end of the first i tokens: the number and how
   many tokens are left, or Nothing.                                           *)
PopNumber(s, i, most) ==
    IF i < 1 THEN Nothing
    ELSE CASE s[i].op = "OP_0" -> [n |-> 0, left |-> i - 1]
           [] s[i].op = "PUSHNUM" -> [n |-> s[i].val, left |-> i - 1]
           [] IsWord(s[i]) ->
                IF /\ i > 1 /\ s[i - 1].op = "PUSHBYTES"
                   /\ s[i - 1].len \in 1..most
                   /\ s[i].op = "hex" /\ s[i].len = 2 * s[i - 1].len
                THEN [n |-> s[i].val, left |-> i - 2] ELSE Nothing
           [] OTHER -> Nothing

IsKey(t) == t.op = "key" /\ t.len \in {66, 130}
IsKeyPush(t) == t.op = "PUSHBYTES" /\ t.len \in {33, 65}

(* The keys below position i, each under its push. *)
KeysBelow(s, i, n) ==
    /\ i >= 2 * n + 1
    /\ \A j \in 0..n - 1 : IsKey(s[i - 2 * j]) /\ IsKeyPush(s[i - 2 * j - 1])

Counted(s, number(_, _)) ==
    LET l == Len(s) IN
    IF l < 3 \/ s[l].op # "OP_CHECKMULTISIG" THEN Nothing
    ELSE LET k == number(s, l - 1) IN
         IF k = Nothing THEN Nothing
         ELSE IF ~KeysBelow(s, k.left, k.n) THEN Nothing
         ELSE LET r == number(s, k.left - 2 * k.n) IN
              IF r = Nothing THEN Nothing ELSE IF r.left # 0 THEN Nothing ELSE <<r.n, k.n>>

(* Numbers of any length that fit in 64 bits, and of at most 4 bytes.      *)
pop_script_number(s, i) == PopNumber(s, i, 8)
web_pop_script_number(s, i) == PopNumber(s, i, 4)

(* Mutant of multisig_counts: what is left below the counts is not looked at. *)
LeftoverIgnored(s) ==
    LET l == Len(s) IN
    IF l < 3 \/ s[l].op # "OP_CHECKMULTISIG" THEN Nothing
    ELSE LET k == pop_script_number(s, l - 1) IN
         IF k = Nothing THEN Nothing
         ELSE IF ~KeysBelow(s, k.left, k.n) THEN Nothing
         ELSE LET r == pop_script_number(s, k.left - 2 * k.n) IN
              IF r = Nothing THEN Nothing ELSE <<r.n, k.n>>

multisig_counts(s) == Counted(s, pop_script_number)
web_parse_multisig_counts(s) == Counted(s, web_pop_script_number)

(* pushnum, push_number and multisig_asm: a bare script, whose counts are
   single opcodes.                                                          *)
pushnum(s, i) == IF i >= 1 /\ s[i].op \in {"OP_0", "PUSHNUM"} THEN PopNumber(s, i, 0) ELSE Nothing
multisig_asm(s) == Counted(s, pushnum) # Nothing
web_push_number(s, i) == IF i >= 1 /\ s[i].op \in {"OP_0", "PUSHNUM"} THEN PopNumber(s, i, 0) ELSE Nothing
web_multisig_asm(s) == Counted(s, web_push_number) # Nothing

------------------------------------------------------------------------------
(* Lightning.                                                              *)

Ops(names) == [i \in 1..Len(names) |-> Op(names[i])]

(* take_asm_word: an expected word matches any word of its length. *)
Fits(want, t) == IF want.op = "word" THEN IsWord(t) /\ t.len = want.len ELSE t = want
Matches(pattern, s) == Len(s) = Len(pattern) /\ \A i \in 1..Len(s) : Fits(pattern[i], s[i])

HtlcPrefix ==
    Ops(<<"OP_DUP", "OP_HASH160">>) \o <<PushBytes(20), Word(40)>>
    \o Ops(<<"OP_EQUAL", "OP_IF", "OP_CHECKSIG", "OP_ELSE">>) \o <<PushBytes(33), Word(66)>>
    \o Ops(<<"OP_SWAP", "OP_SIZE">>) \o <<PushBytes(1), Hex(2, 32), Op("OP_EQUAL")>>

AnchorTail(anchor) ==
    (IF anchor THEN <<PushNum(1), Op("OP_CSV"), Op("OP_DROP")>> ELSE <<>>) \o <<Op("OP_ENDIF")>>

OfferedHtlc(anchor) ==
    HtlcPrefix \o <<Op("OP_NOTIF"), Op("OP_DROP"), PushNum(2), Op("OP_SWAP"), PushBytes(33), Word(66),
                    PushNum(2), Op("OP_CHECKMULTISIG"), Op("OP_ELSE"), Op("OP_HASH160"), PushBytes(20),
                    Word(40), Op("OP_EQUALVERIFY"), Op("OP_CHECKSIG"), Op("OP_ENDIF")>>
               \o AnchorTail(anchor)

ReceivedHtlc(anchor) ==
    HtlcPrefix \o <<Op("OP_IF"), Op("OP_HASH160"), PushBytes(20), Word(40), Op("OP_EQUALVERIFY"),
                    PushNum(2), Op("OP_SWAP"), PushBytes(33), Word(66), PushNum(2),
                    Op("OP_CHECKMULTISIG"), Op("OP_ELSE"), Op("OP_DROP"), PushBytes(3), Word(6),
                    Op("OP_CLTV"), Op("OP_DROP"), Op("OP_CHECKSIG"), Op("OP_ENDIF")>>
               \o AnchorTail(anchor)

(* commitment_delay: a small number, or a push of one or two bytes. *)
Delays == {<<PushNum(n)>>: n \in 0..16} \cup {<<PushBytes(n), Word(2 * n)>>: n \in {1, 2}}

Commitment(delay) ==
    <<Op("OP_IF"), PushBytes(33), Word(66), Op("OP_ELSE")>> \o delay
    \o <<Op("OP_CSV"), Op("OP_DROP"), PushBytes(33), Word(66), Op("OP_ENDIF"), Op("OP_CHECKSIG")>>

(* Mutant of offered_htlc_asm: the received pattern without its tail.      *)
AnyHtlc(s) == \E a \in BOOLEAN : Matches(OfferedHtlc(a), s) \/ Matches(ReceivedHtlc(a), s)

offered_htlc_asm(s) == \E a \in BOOLEAN : Matches(OfferedHtlc(a), s)
received_htlc_asm(s) == \E a \in BOOLEAN : Matches(ReceivedHtlc(a), s)
commitment_output_asm(s) == \E d \in Delays : Matches(Commitment(d), s)
web_offered_htlc_asm(s) == \E a \in BOOLEAN : Matches(OfferedHtlc(a), s)
web_received_htlc_asm(s) == \E a \in BOOLEAN : Matches(ReceivedHtlc(a), s)
web_commitment_output_asm(s) == \E d \in Delays : Matches(Commitment(d), s)

------------------------------------------------------------------------------
(* The labels of an input: its previous output's kind, its witness, the
   start of its scriptsig, and its inner scripts.                           *)

UnderLast(w) == w[Len(w) - 1]

(* Mutant of lightning_force_close_line: a witness of one item has none under
   the last.                                                                *)
NeedsTwoItems(in) ==
    /\ in.kind = "v0_p2wsh" /\ commitment_output_asm(in.inner)
    /\ Len(in.witness) >= 2 /\ UnderLast(in.witness) # "01"

lightning_force_close_line(in) ==
    /\ in.kind = "v0_p2wsh" /\ commitment_output_asm(in.inner)
    /\ in.witness # <<>>
    /\ Len(in.witness) >= 2 => UnderLast(in.witness) # "01"

web_lightning_force_close_badge(in) ==
    /\ in.kind = "v0_p2wsh" /\ web_commitment_output_asm(in.inner)
    /\ in.witness # <<>>
    /\ Len(in.witness) >= 2 => UnderLast(in.witness) # "01"

lightning_htlc_line(in) ==
    /\ in.kind = "v0_p2wsh" /\ (offered_htlc_asm(in.inner) \/ received_htlc_asm(in.inner))
    /\ Len(in.witness) >= 2 /\ UnderLast(in.witness) \notin {"", "pubkey"}

web_lightning_htlc_badge(in) ==
    /\ in.kind = "v0_p2wsh" /\ (web_offered_htlc_asm(in.inner) \/ web_received_htlc_asm(in.inner))
    /\ Len(in.witness) >= 2 /\ UnderLast(in.witness) \notin {"", "pubkey"}

Wrapped(in, prefix) == in.witness # <<>> /\ in.sig = prefix

(* kept_inner_asm: a wrapped key has no script; the witness script goes
   before the redeem script.                                                *)
kept_inner_asm(in, p2sh) ==
    IF p2sh /\ Wrapped(in, "160014") THEN <<>>
    ELSE IF in.inner # <<>> THEN in.inner ELSE in.redeem

(* input_multisig_warning, for the kind of the output.                     *)
input_multisig_warning(in, kind) ==
    IF kind \notin {"p2sh", "v0_p2wsh"} THEN Nothing
    ELSE multisig_counts(kept_inner_asm(in, kind = "p2sh"))

(* multisig_redeem_label: nothing is read when there is a witness script.  *)
web_multisig_redeem_label(in, kind) ==
    IF \/ kind \notin {"p2sh", "v0_p2wsh"}
       \/ kind = "p2sh" /\ Wrapped(in, "160014")
       \/ in.inner # <<>>
    THEN Nothing ELSE web_parse_multisig_counts(in.redeem)

(* Mutant of taproot_script_path_script: the annex is not set aside.       *)
AnnexIsControl(w) == IF Len(w) <= 1 THEN Nothing ELSE w[Len(w) - 1]

(* taproot_script_path_script: the item before the control block, which is
   before the annex if there is one.                                        *)
taproot_script_path_script(w) ==
    LET annex == Len(w) > 1 /\ w[Len(w)] = "50" IN
    IF Len(w) <= (IF annex THEN 2 ELSE 1) THEN Nothing ELSE w[Len(w) - IF annex THEN 2 ELSE 1]

web_taproot_script_path_script(w) ==
    LET annex == Len(w) > 1 /\ w[Len(w)] = "50" IN
    IF Len(w) <= (IF annex THEN 2 ELSE 1) THEN Nothing ELSE w[Len(w) - IF annex THEN 2 ELSE 1]

(* inscription_line knows the network, inscription_button the body: only a
   Liquid body has is_pegin.                                                *)
inscription_line(in) ==
    ~in.liquid /\ in.kind = "v1_p2tr" /\ taproot_script_path_script(in.witness) = "ord"
inscription_button(in) ==
    ~in.liquid /\ in.kind = "v1_p2tr" /\ web_taproot_script_path_script(in.witness) = "ord"

------------------------------------------------------------------------------
(* The type on an address page.  An address is its prefix, the length of the
   rest, and whether the rest has a 1 in it.                                *)

Bech32(a, len) == a.len = len /\ ~a.one             \* is_bech32_lw
WebBech32(a, len) == a.len = len                    \* bech32_lw
Base58(a) == a.len \in 26..34

(* Native: the first that applies, on mainnet only, and for the wrapped
   types only when the list of transactions parses.                         *)
p2wpkh_address_badge(a) == IF a.prefix = "bc1q" /\ Bech32(a, 38) THEN {"P2WPKH"} ELSE {}
p2wsh_address_badge(a) == IF a.prefix = "bc1q" /\ Bech32(a, 58) THEN {"P2WSH"} ELSE {}
p2tr_address_badge(a) == IF a.prefix = "bc1p" /\ Bech32(a, 58) THEN {"P2TR"} ELSE {}
p2pkh_address_badge(a) == IF a.prefix = "1" /\ Base58(a) THEN {"P2PKH"} ELSE {}

Spent(in, prefix) == in # Nothing /\ Wrapped(in, prefix)

p2sh_p2wpkh_address_badge(a, in) ==
    IF a.prefix = "3" /\ Base58(a) /\ a.listed /\ Spent(in, "160014") THEN {"P2SH-P2WPKH"} ELSE {}
p2sh_p2wsh_address_badge(a, in) ==
    IF a.prefix = "3" /\ Base58(a) /\ a.listed /\ Spent(in, "220020") THEN {"P2SH-P2WSH"} ELSE {}
(* Mutant of p2sh_address_badge: one of the two prefixes is forgotten.     *)
OnePrefix(a, in) ==
    IF a.prefix = "3" /\ Base58(a) /\ a.listed /\ ~Spent(in, "160014") THEN {"P2SH"} ELSE {}

p2sh_address_badge(a, in) ==
    IF /\ a.prefix = "3" /\ Base58(a) /\ a.listed
       /\ ~Spent(in, "160014") /\ ~Spent(in, "220020")
    THEN {"P2SH"} ELSE {}

NativeTypes(a, in) ==
    p2wpkh_address_badge(a) \cup p2wsh_address_badge(a) \cup p2tr_address_badge(a)
    \cup p2pkh_address_badge(a) \cup p2sh_p2wpkh_address_badge(a, in)
    \cup p2sh_p2wsh_address_badge(a, in) \cup p2sh_address_badge(a, in)

(* Web: every row that applies; a list that does not parse is an empty one. *)
p2wpkh_type_row(a) == IF a.prefix = "bc1q" /\ WebBech32(a, 38) THEN {"P2WPKH"} ELSE {}
p2wsh_type_row(a) == IF a.prefix = "bc1q" /\ WebBech32(a, 58) THEN {"P2WSH"} ELSE {}
p2tr_type_row(a) == IF a.prefix = "bc1p" /\ WebBech32(a, 58) THEN {"P2TR"} ELSE {}
p2pkh_type_row(a) == IF a.prefix = "1" /\ Base58(a) THEN {"P2PKH"} ELSE {}
spend_rewrote_p2sh(a, in) == a.listed /\ (Spent(in, "160014") \/ Spent(in, "220020"))
p2sh_type_row(a, in) ==
    IF a.prefix = "3" /\ Base58(a) /\ ~spend_rewrote_p2sh(a, in) THEN {"P2SH"} ELSE {}
p2sh_p2wpkh_type_row(a, in) ==
    IF a.prefix = "3" /\ Base58(a) /\ a.listed /\ Spent(in, "160014") THEN {"P2SH-P2WPKH"} ELSE {}
p2sh_p2wsh_type_row(a, in) ==
    IF a.prefix = "3" /\ Base58(a) /\ a.listed /\ Spent(in, "220020") THEN {"P2SH-P2WSH"} ELSE {}

WebTypes(a, in) ==
    p2wpkh_type_row(a) \cup p2wsh_type_row(a) \cup p2tr_type_row(a) \cup p2pkh_type_row(a)
    \cup p2sh_type_row(a, in) \cup p2sh_p2wpkh_type_row(a, in) \cup p2sh_p2wsh_type_row(a, in)

------------------------------------------------------------------------------
Multisig(m, n, push) ==
    push[1] \o [i \in 1..2 * n |-> IF i % 2 = 1 THEN PushBytes(33) ELSE Key(66)] \o push[2]
    \o <<Op("OP_CHECKMULTISIG")>>
Counts(m, n) == {<<<<PushNum(m)>>, <<PushNum(n)>>>>,
                 <<<<PushNum(m)>>, <<PushBytes(1), Hex(2, n)>>>>,
                 <<<<PushBytes(5), Hex(10, m)>>, <<PushNum(n)>>>>}

Scripts ==
    {OfferedHtlc(TRUE), OfferedHtlc(FALSE), ReceivedHtlc(FALSE), Commitment(<<PushNum(6)>>),
     Commitment(<<PushBytes(2), Word(4)>>)}
    \cup UNION {{Multisig(m, n, p): p \in Counts(m, n)}: m \in 0..1, n \in Keys}

(* The tokens an edit puts in. *)
Tokens ==
    {Op("OP_0"), Op("OP_IF"), Op("OP_CHECKMULTISIG"), PushNum(1), PushNum(2), PushBytes(2), PushBytes(5),
     PushBytes(33), PushBytes(65), Word(4), Word(66), Key(66), Hex(2, 2), Hex(10, 1)}

Input(kind, witness, sig, inner, redeem, liquid) ==
    [kind |-> kind, witness |-> witness, sig |-> sig, inner |-> inner, redeem |-> redeem,
     liquid |-> liquid]

Init ==
    /\ edits = 0
    /\ \/ /\ address = Nothing
          /\ \E kind \in Kinds, w \in Witnesses, s \in Scripts, place \in {"inner", "redeem"} :
                input = Input(kind, w, "", IF place = "inner" THEN s ELSE <<>>,
                              IF place = "redeem" THEN s ELSE <<>>, FALSE)
       \/ /\ address \in Addresses
          /\ \E w \in {<<>>, <<"sig", "script">>}, sig \in {"", "160014", "220020"},
               redeem \in {<<>>, Multisig(1, 2, <<<<PushNum(1)>>, <<PushNum(2)>>>>)}, spent \in BOOLEAN :
                input = IF spent THEN Input("p2sh", w, sig, <<>>, redeem, FALSE) ELSE Nothing

Replace(s, i, t) == [s EXCEPT ![i] = t]
Drop(s, i) == SubSeq(s, 1, i - 1) \o SubSeq(s, i + 1, Len(s))

Insert(s, i, t) == SubSeq(s, 1, i - 1) \o <<t>> \o SubSeq(s, i, Len(s))

(* Another script: one token is another one, is left out or is new.  The
   parsers do not look at the kind and the witness, so one of each will do. *)
Edit ==
    /\ address = Nothing /\ input.kind = "v0_p2wsh" /\ Len(input.witness) = 2
    /\ edits < MaxEdits /\ edits' = edits + 1
    /\ \E f \in {"inner", "redeem"} : \E i \in 1..Len(input[f]) :
         \/ \E t \in Tokens : input' = [input EXCEPT ![f] = Replace(input[f], i, t)]
         \/ \E t \in Tokens : input' = [input EXCEPT ![f] = Insert(input[f], i, t)]
         \/ input' = [input EXCEPT ![f] = Drop(input[f], i)]
    /\ UNCHANGED address

(* The same input on Liquid. *)
OnLiquid ==
    /\ address = Nothing /\ edits = 0 /\ ~input.liquid
    /\ input' = [input EXCEPT !.liquid = TRUE]
    /\ UNCHANGED <<address, edits>>

Next == Edit \/ OnLiquid

Spec == Init /\ [][Next]_vars

------------------------------------------------------------------------------
(* No script is two things: the offered and the received pattern share their
   first thirteen tokens, and every HTLC has a CHECKMULTISIG in it, but an
   input gets at most one of the labels.                                    *)
OneLabel ==
    address = Nothing =>
        Cardinality({l \in {"close", "offered", "received", "multisig"}:
            CASE l = "close" -> commitment_output_asm(input.inner)
              [] l = "offered" -> offered_htlc_asm(input.inner)
              [] l = "received" -> received_htlc_asm(input.inner)
              [] l = "multisig" -> multisig_counts(input.inner) # Nothing}) <= 1

(* A multisig count is the count of the keys in the script, whatever is
   edited: nothing is left over, nothing is counted twice.                  *)
CountsKeys ==
    address = Nothing =>
        \A s \in {input.inner, input.redeem} :
            LET c == multisig_counts(s) IN
            c # Nothing => /\ Cardinality({i \in 1..Len(s): IsKey(s[i])}) = c[2]
                        /\ Len(s) \in 2 * c[2] + 3..2 * c[2] + 5

(* Both explorers find the same counts in a script, and neither finds any in
   the same scripts, except where a count is a push of five to eight bytes:
   there the desktop reads the number and the browser reads none.  A bare
   script one of them accepts is one whose counts both parsers find, and the
   Lightning labels of an input are the same.                               *)
WideCount(s) == \E i \in 1..Len(s) : s[i].op = "PUSHBYTES" /\ s[i].len \in 5..8

ParsersAgree ==
    address = Nothing =>
        /\ \A s \in {input.inner, input.redeem} :
            /\ web_parse_multisig_counts(s) = IF WideCount(s) THEN Nothing ELSE multisig_counts(s)
            /\ web_multisig_asm(s) <=> multisig_asm(s)
            /\ multisig_asm(s) => multisig_counts(s) # Nothing
        /\ web_lightning_force_close_badge(input) <=> lightning_force_close_line(input)
        /\ web_lightning_htlc_badge(input) <=> lightning_htlc_line(input)

(* Both explorers find the same counts in every script.  This does not hold:
   see WideCount (README.md, "Statements that fail").                       *)
ParsersAlwaysAgree ==
    address = Nothing =>
        \A s \in {input.inner, input.redeem} : web_parse_multisig_counts(s) = multisig_counts(s)

(* A key-path spend has no script: whatever the witness, both explorers find
   an inscription exactly in the item that a script-path spend reveals once
   the annex is set aside.                                                  *)
InscriptionIsRevealed ==
    address = Nothing =>
        LET w == input.witness
            stack == IF Len(w) > 1 /\ w[Len(w)] = "50" THEN SubSeq(w, 1, Len(w) - 1) ELSE w
            revealed == /\ input.kind = "v1_p2tr" /\ ~input.liquid
                        /\ Len(stack) >= 2 /\ stack[Len(stack) - 1] = "ord"
        IN (inscription_line(input) <=> revealed) /\ (inscription_button(input) <=> revealed)

(* An address of the mainnet has at most one type, and the two explorers give
   it the same one when they have its transactions.                         *)
OneType ==
    address # Nothing =>
        /\ Cardinality(NativeTypes(address, input)) <= 1
        /\ Cardinality(WebTypes(address, input)) <= 1
        /\ (address.listed /\ ~address.one) => NativeTypes(address, input) = WebTypes(address, input)

(* "Angular BECH32_CHARS_LW is [ac-hj-np-z02-9]. `b`, `i`, `o`, and `1` are
   out": an address with a 1 after its prefix has no bech32 type.           *)
OneIsOut ==
    (address # Nothing /\ address.one /\ address.prefix \in {"bc1q", "bc1p"}) =>
        NativeTypes(address, input) = {} /\ WebTypes(address, input) = {}

(* The multisig warning of a native segwit script is the same in both.     *)
WarningsAgree ==
    address = Nothing => web_multisig_redeem_label(input, input.kind) = input_multisig_warning(input, input.kind)
=============================================================================
