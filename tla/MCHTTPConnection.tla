--------------------------- MODULE MCHTTPConnection ---------------------------
(***************************************************************************)
(* HTTPConnection for TLC: the requests that clients of the program send.  *)
(***************************************************************************)
EXTENDS HTTPConnection

Request(method, version, target, headers, connection, length, body) ==
  [method |-> method, version |-> version, target |-> target, headers |-> headers,
   connection |-> connection, length |-> length, body |-> body]

(* A page asks for the device list; the header of several words is its     *)
(* User-Agent.                                                             *)
GetList == Request("GET", "kHttp11", "/api/streams/status", <<"agent">>, "", 0, 0)

(* A page that is not there, asked for the last time on the connection.    *)
GetMissing == Request("GET", "kHttp11", "missing", <<"connection">>, "close", 0, 0)

(* The address of a directory of pages, www/main.                          *)
GetDirectory == Request("GET", "kHttp11", "directory", <<>>, "", 0, 0)

(* A login, as a browser and as nginx (nginx.conf:78) send it.             *)
Login == Request("POST", "kHttp11", "/api/login", <<"length", "agent">>, "", 2, 2)
LoginByProxy ==
  Request("POST", "kHttp11", "/api/login", <<"connection", "length">>, "close", 2, 2)

(* New lens parameters; the last header comes after the length.            *)
PostLens ==
  Request("POST", "kHttp11", "/api/camera/1/lens/params", <<"length", "connection">>,
          "keep-alive", 1, 1)

(* The branch of ConfigMQTTHandler that answers a PUT.                     *)
PutMqtt == Request("PUT", "kHttp11", "/api/config/mqtt", <<"length">>, "", 1, 1)

(* A client of the old protocol that asks to keep the connection.          *)
GetOld == Request("GET", "kHttp10", "/api/streams/status", <<"connection">>, "keep-alive", 0, 0)

(* A Content-Length that is no number.                                     *)
BadLength == Request("POST", "kHttp11", "/api/login", <<"length">>, "", NotANumber, 0)

WellFormed == {GetList, GetMissing, GetDirectory, Login, LoginByProxy, PostLens, PutMqtt, GetOld}
AllRequests == WellFormed \cup {BadLength}

WholeCuts == {"last", "request"}

(* A piece of the stream may also end between two words of a body.         *)
BodyCuts == {"last", "body"}
===============================================================================
