-------------------------- MODULE MCHttpConnection --------------------------
(***************************************************************************)
(* TLC instance of HttpConnection: every request of a set, with a second   *)
(* one that has a body, says nothing of the connection, or wants it kept.  *)
(***************************************************************************)
EXTENDS HttpConnection

Field(name, value) == [name |-> <<name>>, value |-> value]
KeepAlive == Field("Connection", <<"keep-alive">>)
Close == Field("Connection", <<"close">>)
Length(n) == Field("Content-Length", <<Numerals[n + 1]>>)
Chunked == Field("Transfer-Encoding", <<"chunked">>)
Form == Field("Content-Type", <<"urlencoded">>)
File == Field("Content-Type", <<"multipart">>)

Get(path, query, version, headers) ==
  [method |-> "GET", path |-> path, query |-> query, version |-> version, headers |-> headers,
   body |-> <<>>, chunked |-> FALSE, trailers |-> <<>>]
Post(headers, body, chunked, trailers) ==
  [method |-> "POST", path |-> <<"/">>, query |-> <<>>, version |-> "HTTP/1.1", headers |-> headers,
   body |-> body, chunked |-> chunked, trailers |-> trailers]

GetKept == Get(<<"/", "a">>, <<"q">>, "HTTP/1.1", <<KeepAlive>>)
GetOld == Get(<<"/">>, <<>>, "HTTP/1.0", <<>>)
PostKept == Post(<<KeepAlive, Length(2), Form>>, <<<<"x", "y">>>>, FALSE, <<>>)

Requests ==
  {GetKept, GetOld, PostKept,
   Get(<<"/">>, <<>>, "HTTP/1.1", <<Field("connection", <<"close">>)>>),
   Get(<<"/", "a", "b", "c", "d">>, <<"q">>, "HTTP/1.1", <<KeepAlive>>),
   Get(<<"/">>, <<>>, "HTTP/1.1", <<Close, KeepAlive>>),
   Get(<<"/">>, <<>>, "HTTP/1.1", <<Field("Connection", <<"close", ",", SP, "keep-alive">>)>>),
   Get(<<"/">>, <<>>, "HTTP/1.1", <<Field("Connection", <<"keep-alive", CR, LF, SP, "x">>)>>),
   Post(<<Length(3), Form>>, <<<<"x", "y", "z">>>>, FALSE, <<>>),
   Post(<<Chunked, File, KeepAlive>>, <<<<"x">>>>, TRUE, <<>>),
   Post(<<Chunked, Form>>, <<<<"x">>, <<"y">>>>, TRUE, <<Field("Trailer", <<"t">>)>>)}

MCDialogues == {<<a, b>> : a \in Requests, b \in {GetKept, GetOld, PostKept}}
=============================================================================
