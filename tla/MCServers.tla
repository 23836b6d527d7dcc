----------------------------- MODULE MCServers -----------------------------
(* The two servers, and the pure functions of Packets, Dns, Response and    *)
(* Texts over their samples.                                                *)
EXTENDS Servers, Texts

Name == <<<<101, 49>>, <<110>>>>
SomeAddresses == {<<10, 0, 0, 1>>, <<1, 4, 192, 4>>}
SomeAliases == {<<192, 12>>, <<1, 97, 0>>, <<3, 1, 1, 4, 0>>}

\* webutil.cpp finds the parameter asked for, and reads back what it writes.
TextsReadBack == Once => KeyValFound /\ UrlReadsBack /\ IpReadsBack
\* prepare() counts what extract() then writes, which is what the format says,
\* and emit_p() writes the same.
FormatsAgree == Once => LengthPrepared /\ BufferFilled
=============================================================================
