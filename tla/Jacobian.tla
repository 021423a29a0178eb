------------------------------ MODULE Jacobian ------------------------------
(***************************************************************************)
(* Points of y^2 = x^3 + b in Jacobian coordinates, over any field: the    *)
(* formulas that soroban-zk-core/src/lib.rs writes once for G1Projective   *)
(* and once for G2Projective.  A point whose z is zero is the identity.    *)
(***************************************************************************)
EXTENDS Integers

CONSTANTS
    Plus(_, _), Minus(_, _), Times(_, _), Square(_),  \* the field
    Small(_),     \* a small integer as an element of the field
    Order,        \* what scalars are reduced by, FR_MODULUS
    Bits          \* the bits of a scalar the ladder looks at, 254

Identity == [x |-> Small(1), y |-> Small(1), z |-> Small(0)]
IsIdentity(p) == p.z = Small(0)

Double(p) ==
    LET xx == Square(p.x)   yy == Square(p.y)
        s == Times(Times(p.x, yy), Small(4))
        m == Times(xx, Small(3))
        t == Minus(Square(m), Plus(s, s))
        yz == Times(p.y, p.z)
    IN  IF IsIdentity(p) THEN p
        ELSE [x |-> t,
              y |-> Minus(Times(m, Minus(s, t)), Times(Square(yy), Small(8))),
              z |-> Plus(yz, yz)]

(* The formula of addition, for points that differ in x.                    *)
AddDistinct(p, q, u1, u2, s1, s2) ==
    LET h == Minus(u2, u1)   r == Minus(s2, s1)
        h2 == Square(h)   h3 == Times(h2, h)   u1h2 == Times(u1, h2)
        x3 == Minus(Minus(Square(r), h3), Plus(u1h2, u1h2))
    IN  [x |-> x3,
         y |-> Minus(Times(r, Minus(u1h2, x3)), Times(s1, h3)),
         z |-> Times(h, Times(p.z, q.z))]

(* Coordinates are compared after scaling by the other point's z.           *)
Add(p, q) ==
    LET z1z1 == Square(p.z)   z2z2 == Square(q.z)
        u1 == Times(p.x, z2z2)   s1 == Times(p.y, Times(q.z, z2z2))
        u2 == Times(q.x, z1z1)   s2 == Times(q.y, Times(p.z, z1z1))
    IN  IF IsIdentity(p) THEN q
        ELSE IF IsIdentity(q) THEN p
        ELSE IF u1 # u2 THEN AddDistinct(p, q, u1, u2, s1, s2)
        ELSE IF s1 = s2 THEN Double(p) ELSE Identity

(* Double and add from the highest bit, on a scalar reduced first.          *)
Ladder(p, s) ==
    LET acc[k \in 0..Bits] ==   \* the k highest bits are done
          IF k = 0 THEN Identity
          ELSE LET twice == Double(acc[k - 1]) IN
               IF (s \div 2 ^ (Bits - k)) % 2 = 1 THEN Add(twice, p) ELSE twice
    IN  acc[Bits]

ScalarMul(p, scalar) ==
    LET s == scalar % Order IN
    CASE s = 0 -> Identity [] s = 1 -> p [] OTHER -> Ladder(p, s)
=============================================================================
