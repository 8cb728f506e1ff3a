----------------------------- MODULE MCXmpSidecar -----------------------------
(* Instances of XmpSidecar for TLC. *)
EXTENDS XmpSidecar, TLC

CONSTANTS w1, w2, a, b, t

Entries(attr, elem) == [attr |-> attr, elem |-> elem]
None == Entries(Absent, Absent)

(* The properties of the suite: keywords and a rating; of others: gps. *)
Description(kw, rating, gps) == "kw" :> kw @@ "rating" :> rating @@ "gps" :> gps

(* Sidecars of photo tools: malformed, empty, without a description, in    *)
(* both forms at once, and with a property scattered over two              *)
(* descriptions.                                                           *)
MCToolDocs == {BadDoc, EmptyDoc, <<>>,
    <<Description(Entries(t, t), None, Entries(t, Absent))>>,
    <<Description(None, Entries(t, Absent), None),
      Description(Entries(Absent, t), Entries(Absent, t), Entries(Absent, t))>>}

(* A caption stage writes keywords, a rating stage rates and takes the     *)
(* keywords away.                                                          *)
MCData == {"kw" :> a @@ "rating" :> Leave, "kw" :> Absent @@ "rating" :> b}
=============================================================================
