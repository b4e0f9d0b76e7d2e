----------------------------- MODULE MCBodyRelay -----------------------------
(***************************************************************************)
(* BodyRelay for TLC, and the grammar of a chunked body, which Decoded is  *)
(* compared with.                                                          *)
(***************************************************************************)
EXTENDS BodyRelay

MCDataSymbols == {CR, Other}

----------------------------------------------------------------------------
(* A body in chunks by the grammar of RFC 9112: chunks with their sizes,   *)
(* the last of size 0, and trailers.                                       *)

(* How a literal begins w: wholly, as far as w goes, or not.               *)
Begins(literal, w) ==
  IF IsPrefix(literal, w) THEN "whole" ELSE IF IsPrefix(w, literal) THEN "open" ELSE "bad"

RECURSIVE TrailerStatus(_)
TrailerStatus(w) ==
  IF Begins(CRLF, w) # "bad" THEN Begins(CRLF, w)
  ELSE IF Begins(<<Other>> \o CRLF, w) = "whole" THEN TrailerStatus(SubSeq(w, 4, Len(w)))
  ELSE Begins(<<Other>> \o CRLF, w)

RECURSIVE Grammar(_)
Grammar(w) ==
  LET heading == Begins(<<w[1]>> \o CRLF, w)
      size == SizeOf(w[1])
      data == SubSeq(w, 4, Least(3 + size, Len(w)))
      rest == SubSeq(w, 4 + size, Len(w))
      next == Grammar(SubSeq(rest, 3, Len(rest)))
  IN  CASE w = <<>> -> Body(<<>>, "open")
        [] w # <<>> /\ ~IsSize(w[1]) -> Body(<<>>, "bad")
        [] w # <<>> /\ IsSize(w[1]) /\ heading # "whole" -> Body(<<>>, heading)
        [] w # <<>> /\ IsSize(w[1]) /\ heading = "whole" ->
             IF size = 0 THEN Body(<<>>, TrailerStatus(rest))
             ELSE IF Begins(CRLF, rest) = "whole"
                    THEN Body(data \o next.data, next.status)
                    ELSE Body(data, Begins(CRLF, rest))

(* Decoded agrees with the grammar on everything put together from up to   *)
(* seven of these pieces: whole bodies of one chunk, of none with a        *)
(* trailer, and what can go wrong in them.                                 *)
Parts == {CRLF, <<CR>>, <<LF>>, <<Other>>, <<SizeText(0)>>, <<SizeText(1)>>, <<SizeText(2)>>}

ASSUME DecoderFollowsGrammar ==
  \A n \in 0..7 : \A p \in [1..n -> Parts] : ChunkedBody(FlattenSeq(p)) = Grammar(FlattenSeq(p))
=============================================================================
